---- MODULE Spec2Model ----
(***************************************************************************)
(* Model of the risk manager (src/src/utils/risk_manager.py) and of the    *)
(* moving-average cross strategy                                           *)
(* (src/src/strategies/moving_average_strategy.py).                        *)
(*                                                                         *)
(* Numbers.  Python floats are modelled by exact rational arithmetic over  *)
(* integers:                                                               *)
(*   - money (prices, capital, portfolio value) is counted in tenths of a  *)
(*     yuan, so 89.9 is 899 and 10000 is 100000;                           *)
(*   - ratios and weights are counted in percent, so 0.1 is 10;            *)
(*   - a quotient the code keeps as a float is the pair <<n, d>>, d > 0,   *)
(*     standing for n / d.                                                 *)
(* Records leave out the 'add_time' / 'time' wall-clock strings, which no  *)
(* operation reads.  A dict is a function whose DOMAIN is its key set.     *)
(***************************************************************************)
EXTENDS Integers, Sequences, FiniteSets, TLC

VARIABLES
    initial_capital,      \* RiskManager.initial_capital      (tenths of a yuan)
    max_position_weight,  \* RiskManager.max_position_weight  (percent)
    stop_loss_ratio,      \* RiskManager.stop_loss_ratio      (percent)
    take_profit_ratio,    \* RiskManager.take_profit_ratio    (percent)
    max_drawdown_limit,   \* RiskManager.max_drawdown_limit   (percent)
    max_position_count,   \* RiskManager.max_position_count
    positions,            \* RiskManager.positions: symbol -> position record
    trade_history,        \* RiskManager.trade_history: sequence of trade records
    equity_curve,         \* RiskManager.equity_curve: sequence of values
    short_ma,             \* MovingAverageStrategy.short_ma
    long_ma,              \* MovingAverageStrategy.long_ma
    position,             \* MovingAverageStrategy.position: "None" or "long"
    signalled_long,       \* symbols whose latest BUY/SELL signal was a BUY
    inflight,             \* caller -> the call it is in the middle of
    last_signal,          \* the last BUY/SELL the strategy object emitted
    market,               \* the K-line frame the data API holds
    cash,                 \* BacktestEngine.cash (thousandths of the money unit)
    engine_position,      \* BacktestEngine.position: shares held
    trades,               \* BacktestEngine.trades
    current_capital,      \* StrategyPortfolio.current_capital
    portfolio_positions,  \* StrategyPortfolio.positions
    portfolio_trade_history, \* StrategyPortfolio.trade_history
    lastCall,             \* the last call made: operation, arguments, result
    pre_positions         \* RiskManager.positions as the last call found it

vars == <<initial_capital, max_position_weight, stop_loss_ratio,
          take_profit_ratio, max_drawdown_limit, max_position_count,
          positions, trade_history, equity_curve,
          short_ma, long_ma, position, signalled_long, inflight,
          last_signal, market, cash, engine_position, trades,
          current_capital, portfolio_positions, portfolio_trade_history,
          lastCall, pre_positions>>

config == <<initial_capital, max_position_weight, stop_loss_ratio,
            take_profit_ratio, max_drawdown_limit, max_position_count>>

portfolio == <<positions, trade_history, equity_curve>>

strategy == <<short_ma, long_ma, position, signalled_long, last_signal>>

engine == <<cash, engine_position, trades>>

book == <<current_capital, portfolio_positions, portfolio_trade_history>>

\* the state of the objects beside the risk manager and the strategy
collaborators == <<market, engine, book>>

(***************************************************************************)
(* Bounds and input sets                                                   *)
(***************************************************************************)
MaxTrades == 3      \* longest trade_history explored
MaxEquity == 2      \* longest equity_curve explored
MaxBars == 7        \* longest price history the data API returns

Symbols == {"600519", "000001"}

\* the callers that may be inside a RiskManager method at the same time
Callers == {1, 2}

\* a caller that is inside no method
IdleCall == [pc |-> "idle"]

LotSize == 100

\* shares handed to add_position: invalid (0) and valid
SharesIn == {0, 100}

\* buy prices handed to add_position (tenths of a yuan): invalid (0) and valid
PricesIn == {0, 1000}

\* sell prices handed to remove_position: a loss and the cost itself
SellPricesIn == {900, 1000}

\* prices handed to check_stop_loss / check_take_profit
QuotesIn == {899, 901, 1200}

\* target weights handed to add_position / can_open_position (percent)
WeightsIn == {20, 40}

\* arguments handed to calculate_position_size
SizePricesIn == {-10, 0, 10, 500}
CapitalsIn == {-100000, 0, 100000}
RiskPerTradeIn == {2, 10}

\* constructor arguments tried for the position-sizing configuration
StopLossIn == {5, 10, 150}
MaxWeightIn == {10, 30, 100}

\* closing prices of the bars the data API returns
ClosesIn == {1, 2}

\* what api.get_daily_price returns: None, a frame of enough rows that has no
\* 'close' column, or a frame of 0..MaxBars bars (the empty frame included)
FramesIn ==
    {[kind |-> "None", close |-> <<>>], [kind |-> "no_close", close |-> <<>>]}
    \cup {[kind |-> "frame", close |-> c] :
             c \in UNION {[1..n -> ClosesIn] : n \in 0..MaxBars}}

\* portfolio values handed to the metrics and circuit-breaker queries
ValuesIn == {85000, 100000}

\* values appended to the equity curve
EquityIn == {90000, 100000}

(***************************************************************************)
(* Arithmetic helpers                                                      *)
(***************************************************************************)
Abs(n) == IF n >= 0 THEN n ELSE -n

\* Python int(n / d): the quotient truncated toward zero, d # 0
Trunc(n, d) ==
    IF (n >= 0) = (d > 0) THEN Abs(n) \div Abs(d) ELSE -(Abs(n) \div Abs(d))

Min(a, b) == IF a <= b THEN a ELSE b

MaxOf(S) == CHOOSE x \in S : \A y \in S : y <= x

\* n1/d1 < n2/d2 etc. for positive denominators
RatLess(a, b) == a[1] * b[2] < b[1] * a[2]
RatEq(a, b) == a[1] * b[2] = b[1] * a[2]
RatLeq(a, b) == a[1] * b[2] <= b[1] * a[2]

RECURSIVE GCD(_, _)
GCD(a, b) == IF b = 0 THEN a ELSE GCD(b, a % b)

\* n / d in lowest terms
RatNorm(r) ==
    LET g == GCD(Abs(r[1]), r[2]) IN <<r[1] \div g, r[2] \div g>>

RatAdd(a, b) == RatNorm(<<a[1] * b[2] + b[1] * a[2], a[2] * b[2]>>)
RatMul(a, b) == RatNorm(<<a[1] * b[1], a[2] * b[2]>>)
RatNeg(a) == <<-a[1], a[2]>>

RECURSIVE CfLeq(_, _, _, _)
\* a / b <= c / d for a, c >= 0 and b, d > 0, by continued fractions: no
\* product is formed, so large terms do not overflow
CfLeq(a, b, c, d) ==
    IF a \div b # c \div d THEN a \div b < c \div d
    ELSE IF a % b = 0 THEN TRUE
    ELSE IF c % d = 0 THEN FALSE
    ELSE CfLeq(d, c % d, b, a % b)

RECURSIVE SumOver(_, _)
\* sum(f[k] for k in S)
SumOver(f, S) ==
    IF S = {} THEN 0
    ELSE LET k == CHOOSE x \in S : TRUE
         IN  f[k] + SumOver(f, S \ {k})

Held == DOMAIN positions

(***************************************************************************)
(* RiskManager: the pure part of each operation                            *)
(***************************************************************************)
\* the stop-loss price taken for the risk per share
risk_per_share_stop_price(price) == price * (100 - stop_loss_ratio)

\* risk_per_share = price - price * (1 - stop_loss_ratio), in hundredths of
\* the money unit
risk_per_share(price) == 100 * price - price * (100 - stop_loss_ratio)

\* calculate_position_size without the cap by max_position_weight
calculate_position_size_uncapped(price, available_capital, risk_per_trade) ==
    IF risk_per_share(price) <= 0 THEN 0
    ELSE Trunc(available_capital * risk_per_trade,
               risk_per_share(price) * LotSize) * LotSize

\* calculate_position_size: the returned share count
calculate_position_size(price, available_capital, risk_per_trade) ==
    IF risk_per_share(price) <= 0 THEN 0
    ELSE LET \* risk_amount / risk_per_share
             \*   = (capital * rpt / 100) / (risk_per_share / 100)
             shares == Trunc(available_capital * risk_per_trade,
                             risk_per_share(price) * LotSize) * LotSize
             max_shares == Trunc(available_capital * max_position_weight,
                                 100 * price * LotSize) * LotSize
         IN  Min(shares, max_shares)

\* check_stop_loss that reads take_profit_ratio where it means stop_loss_ratio
check_stop_loss_wrong_ratio(symbol, current_price) ==
    IF symbol \notin DOMAIN positions THEN FALSE
    ELSE 100 * current_price
             <= positions[symbol].cost_price * (100 - take_profit_ratio)

\* check_stop_loss: current_price <= cost_price * (1 - stop_loss_ratio)
check_stop_loss(symbol, current_price) ==
    IF symbol \notin DOMAIN positions THEN FALSE
    ELSE 100 * current_price
             <= positions[symbol].cost_price * (100 - stop_loss_ratio)

\* check_take_profit: current_price >= cost_price * (1 + take_profit_ratio)
check_take_profit(symbol, current_price) ==
    IF symbol \notin DOMAIN positions THEN FALSE
    ELSE 100 * current_price
             >= positions[symbol].cost_price * (100 + take_profit_ratio)

\* _get_total_weight reads pos['weight'], a key add_position never writes
\* (it writes 'target_weight'): the generator raises KeyError on the first
\* held position, and sums nothing when no position is held
_get_total_weight ==
    IF DOMAIN positions = {} THEN [exc |-> "none", val |-> 0]
    ELSE [exc |-> "KeyError", val |-> 0]

\* can_open_position that answers True for a symbol already held
can_open_position_held_allowed(symbol, proposed_weight) ==
    IF symbol \in DOMAIN positions
    THEN [exc |-> "none", ret |-> <<TRUE, "already held">>]
    ELSE IF Cardinality(DOMAIN positions) >= max_position_count
    THEN [exc |-> "none", ret |-> <<FALSE, "position count limit">>]
    ELSE IF _get_total_weight.exc # "none"
    THEN [exc |-> _get_total_weight.exc, ret |-> <<>>]
    ELSE IF _get_total_weight.val + proposed_weight
                > max_position_weight * max_position_count
    THEN [exc |-> "none", ret |-> <<FALSE, "weight too high">>]
    ELSE [exc |-> "none", ret |-> <<TRUE, "can open">>]

\* can_open_position: the (allowed, reason) pair, or the exception raised
can_open_position(symbol, proposed_weight) ==
    IF symbol \in DOMAIN positions
    THEN [exc |-> "none", ret |-> <<FALSE, "already held">>]
    ELSE IF Cardinality(DOMAIN positions) >= max_position_count
    THEN [exc |-> "none", ret |-> <<FALSE, "position count limit">>]
    ELSE IF _get_total_weight.exc # "none"
    THEN [exc |-> _get_total_weight.exc, ret |-> <<>>]
    ELSE IF _get_total_weight.val + proposed_weight
                > max_position_weight * max_position_count
    THEN [exc |-> "none", ret |-> <<FALSE, "weight too high">>]
    ELSE [exc |-> "none", ret |-> <<TRUE, "can open">>]

\* add_position that checks the share count only, not the price
add_position_any_price(symbol, shares, price, target_weight) ==
    IF shares <= 0 THEN positions
    ELSE [s \in DOMAIN positions \cup {symbol} |->
            IF s = symbol
            THEN [shares |-> shares, cost_price |-> price,
                  target_weight |-> target_weight]
            ELSE positions[s]]

\* add_position: the positions dict after the call
add_position(symbol, shares, price, target_weight) ==
    IF shares <= 0 \/ price <= 0 THEN positions
    ELSE [s \in DOMAIN positions \cup {symbol} |->
            IF s = symbol
            THEN [shares |-> shares, cost_price |-> price,
                  target_weight |-> target_weight]
            ELSE positions[s]]

\* remove_position that divides the gain by the sell price, not by the cost
trade_record_over_sell(symbol, sell_price) ==
    LET cost_price == positions[symbol].cost_price
    IN  [symbol |-> symbol,
         shares |-> positions[symbol].shares,
         buy_price |-> cost_price,
         sell_price |-> sell_price,
         profit_pct |-> <<(sell_price - cost_price) * 100, sell_price>>]

\* remove_position: the record appended to trade_history
trade_record(symbol, sell_price) ==
    LET cost_price == positions[symbol].cost_price
    IN  [symbol |-> symbol,
         shares |-> positions[symbol].shares,
         buy_price |-> cost_price,
         sell_price |-> sell_price,
         \* (sell_price - cost_price) / cost_price * 100
         profit_pct |-> <<(sell_price - cost_price) * 100, cost_price>>]

\* remove_position that clears the whole dict instead of deleting one key
del_position_clear(symbol) == <<>>

\* remove_position: del self.positions[symbol]
del_position(symbol) ==
    [s \in DOMAIN positions \ {symbol} |-> positions[s]]

\* _assess_risk_level, on max_drawdown (a quotient) and concentration (percent)
_assess_risk_level(max_drawdown, concentration) ==
    IF RatLess(<<20, 1>>, max_drawdown) THEN "extreme"
    ELSE IF RatLess(<<10, 1>>, max_drawdown) \/ concentration > 40 THEN "high"
    ELSE IF RatLess(<<5, 1>>, max_drawdown) \/ concentration > 30 THEN "medium"
    ELSE "low"

\* sum(p['shares'] * p['cost_price'] for p in self.positions.values())
invested ==
    SumOver([s \in DOMAIN positions |->
                positions[s].shares * positions[s].cost_price],
            DOMAIN positions)

\* calculate_risk_metrics that measures the drawdown from the first recorded
\* value instead of from the highest one
calculate_risk_metrics_from_first(current_value) ==
    IF initial_capital = 0 THEN [exc |-> "ZeroDivisionError"]
    ELSE
    LET total_return ==
            <<(current_value - initial_capital) * 100, initial_capital>>
        cash_ratio ==
            IF DOMAIN positions # {}
            THEN IF current_value > 0
                 THEN <<current_value - invested, current_value>>
                 ELSE <<0, 1>>
            ELSE <<1, 1>>
        concentration ==
            IF DOMAIN positions # {} /\ current_value > 0
            THEN MaxOf({positions[s].target_weight : s \in DOMAIN positions})
            ELSE 0
        max_drawdown ==
            IF Len(equity_curve) > 1
            THEN IF equity_curve[1] > 0
                 THEN <<(equity_curve[1] - equity_curve[Len(equity_curve)]) * 100,
                        equity_curve[1]>>
                 ELSE <<0, 1>>
            ELSE <<0, 1>>
    IN  [exc |-> "none",
         total_return |-> total_return,
         position_count |-> Cardinality(DOMAIN positions),
         cash_ratio |-> cash_ratio,
         concentration |-> concentration,
         max_drawdown |-> max_drawdown,
         risk_level |-> _assess_risk_level(max_drawdown, concentration)]

\* calculate_risk_metrics: the RiskMetrics fields the method sets, or the
\* exception raised (the division by initial_capital is unguarded)
calculate_risk_metrics(current_value) ==
    IF initial_capital = 0 THEN [exc |-> "ZeroDivisionError"]
    ELSE
    LET total_return ==
            <<(current_value - initial_capital) * 100, initial_capital>>
        cash_ratio ==
            IF DOMAIN positions # {}
            THEN IF current_value > 0
                 THEN <<current_value - invested, current_value>>
                 ELSE <<0, 1>>
            ELSE <<1, 1>>
        concentration ==
            IF DOMAIN positions # {} /\ current_value > 0
            THEN MaxOf({positions[s].target_weight : s \in DOMAIN positions})
            ELSE 0
        equity == {equity_curve[i] : i \in 1..Len(equity_curve)}
        max_drawdown ==
            IF Len(equity_curve) > 1
            THEN IF MaxOf(equity) > 0
                 THEN <<(MaxOf(equity) - equity_curve[Len(equity_curve)]) * 100,
                        MaxOf(equity)>>
                 ELSE <<0, 1>>
            ELSE <<0, 1>>
    IN  [exc |-> "none",
         total_return |-> total_return,
         position_count |-> Cardinality(DOMAIN positions),
         cash_ratio |-> cash_ratio,
         concentration |-> concentration,
         max_drawdown |-> max_drawdown,
         risk_level |-> _assess_risk_level(max_drawdown, concentration)]

\* _calculate_win_rate
_calculate_win_rate ==
    IF trade_history = <<>> THEN <<0, 1>>
    ELSE <<Cardinality({i \in 1..Len(trade_history) :
                          RatLess(<<0, 1>>, trade_history[i].profit_pct)})
                 * 100,
           Len(trade_history)>>

\* get_portfolio_status: the returned dict, or the exception raised
get_portfolio_status(current_value) ==
    LET metrics == calculate_risk_metrics(current_value)
        positions_info ==
            [s \in DOMAIN positions |->
                LET market_value ==
                        positions[s].shares * positions[s].cost_price
                IN  [symbol |-> s,
                     shares |-> positions[s].shares,
                     cost |-> positions[s].cost_price,
                     market_value |-> market_value,
                     weight |-> IF current_value > 0
                                THEN <<market_value * 100, current_value>>
                                ELSE <<0, 1>>,
                     target_weight |-> positions[s].target_weight]]
    IN  IF metrics.exc # "none" THEN [exc |-> metrics.exc]
        ELSE [exc |-> "none",
              initial_capital |-> initial_capital,
              current_value |-> current_value,
              total_return |-> metrics.total_return,
              positions |-> positions_info,
              position_count |-> metrics.position_count,
              cash_ratio |-> metrics.cash_ratio,
              max_drawdown |-> metrics.max_drawdown,
              risk_level |-> metrics.risk_level,
              trade_count |-> Len(trade_history),
              win_rate |-> _calculate_win_rate]

\* should_stop_trading that trips only strictly above the drawdown limit
should_stop_trading_strict(current_value) ==
    IF /\ initial_capital > 0
       /\ (initial_capital - current_value) * 100
              > max_drawdown_limit * initial_capital
    THEN <<TRUE, "max drawdown limit">>
    ELSE IF /\ Len(trade_history) >= 3
            /\ \A i \in (Len(trade_history) - 2)..Len(trade_history) :
                   RatLess(trade_history[i].profit_pct, <<0, 1>>)
    THEN <<TRUE, "3 consecutive losses">>
    ELSE <<FALSE, "">>

\* should_stop_trading: the (stop, reason) pair
should_stop_trading(current_value) ==
    IF /\ initial_capital > 0
       /\ (initial_capital - current_value) * 100
              >= max_drawdown_limit * initial_capital
    THEN <<TRUE, "max drawdown limit">>
    ELSE IF /\ Len(trade_history) >= 3
            /\ \A i \in (Len(trade_history) - 2)..Len(trade_history) :
                   RatLess(trade_history[i].profit_pct, <<0, 1>>)
    THEN <<TRUE, "3 consecutive losses">>
    ELSE <<FALSE, "">>

(***************************************************************************)
(* RiskManager: construction and one action per method                     *)
(***************************************************************************)
\* MovingAverageStrategy.__init__ with its default windows
StrategyIdle ==
    /\ short_ma = 5 /\ long_ma = 20 /\ position = "None"
    /\ signalled_long = {} /\ last_signal = "none"

\* a K-line frame is <<kind, rows, close, vol>>; this is None, what the data
\* API answers when it has nothing
NoMarket == <<"None", 0, <<>>, <<>>>>

\* BacktestEngine.__init__ with its default capital of 10000 yuan, in
\* ten-thousandths of a yuan (see CommissionUp)
EngineIdle ==
    /\ cash = 100000 * 1000
    /\ engine_position = 0
    /\ trades = <<>>

\* StrategyPortfolio.__init__ with its default capital
BookIdle ==
    /\ current_capital = 100000
    /\ portfolio_positions = <<>>
    /\ portfolio_trade_history = <<>>

CollaboratorsIdle == market = NoMarket /\ EngineIdle /\ BookIdle

\* RiskManager.__init__: the configuration is stored, the logs are empty
Init ==
    /\ initial_capital = 100000
    /\ max_position_weight = 30
    /\ stop_loss_ratio = 10
    /\ take_profit_ratio = 20
    /\ max_drawdown_limit = 15
    /\ max_position_count \in {1, 2}
    /\ positions = <<>>
    /\ trade_history = <<>>
    /\ equity_curve = <<>>
    /\ StrategyIdle
    /\ lastCall = [op |-> "__init__", exc |-> "none"]
    /\ pre_positions = <<>>
    /\ inflight = [c \in Callers |-> IdleCall]
    /\ CollaboratorsIdle

CalculatePositionSize ==
    \E price \in SizePricesIn, available_capital \in CapitalsIn,
       risk_per_trade \in RiskPerTradeIn :
        /\ lastCall' = [op |-> "calculate_position_size",
                        price |-> price,
                        available_capital |-> available_capital,
                        risk_per_trade |-> risk_per_trade,
                        exc |-> "none",
                        ret |-> calculate_position_size(
                                    price, available_capital, risk_per_trade)]
        /\ pre_positions' = positions
        /\ UNCHANGED <<config, collaborators, portfolio, strategy, inflight>>

CheckStopLoss ==
    \E symbol \in Symbols, current_price \in QuotesIn :
        /\ lastCall' = [op |-> "check_stop_loss",
                        symbol |-> symbol,
                        current_price |-> current_price,
                        exc |-> "none",
                        ret |-> check_stop_loss(symbol, current_price)]
        /\ pre_positions' = positions
        /\ UNCHANGED <<config, collaborators, portfolio, strategy, inflight>>

CheckTakeProfit ==
    \E symbol \in Symbols, current_price \in QuotesIn :
        /\ lastCall' = [op |-> "check_take_profit",
                        symbol |-> symbol,
                        current_price |-> current_price,
                        exc |-> "none",
                        ret |-> check_take_profit(symbol, current_price)]
        /\ pre_positions' = positions
        /\ UNCHANGED <<config, collaborators, portfolio, strategy, inflight>>

CanOpenPosition ==
    \E symbol \in Symbols, proposed_weight \in WeightsIn :
        /\ lastCall' = [op |-> "can_open_position",
                        symbol |-> symbol,
                        proposed_weight |-> proposed_weight,
                        exc |-> can_open_position(symbol, proposed_weight).exc,
                        ret |-> can_open_position(symbol, proposed_weight).ret]
        /\ pre_positions' = positions
        /\ UNCHANGED <<config, collaborators, portfolio, strategy, inflight>>

\* add_position with its arguments drawn from the given sets
AddPositionWith(shares_in, prices_in, weights) ==
    \E symbol \in Symbols, shares \in shares_in, price \in prices_in,
       target_weight \in weights :
        /\ positions' = add_position(symbol, shares, price, target_weight)
        /\ lastCall' = [op |-> "add_position",
                        symbol |-> symbol,
                        shares |-> shares,
                        price |-> price,
                        exc |-> "none"]
        /\ pre_positions' = positions
        /\ UNCHANGED <<config, collaborators, trade_history, equity_curve,
                       strategy, inflight>>

\* add_position with target_weight drawn from `weights`
AddPositionOver(weights) == AddPositionWith(SharesIn, PricesIn, weights)

AddPosition == AddPositionOver(WeightsIn)

\* remove_position that files the new trade record ahead of the old ones
RemovePositionPrepend ==
    \E symbol \in Symbols, sell_price \in SellPricesIn :
        /\ symbol \in DOMAIN positions
        /\ positions[symbol].cost_price # 0
        /\ Len(trade_history) < MaxTrades
        /\ lastCall' = [op |-> "remove_position",
                        symbol |-> symbol,
                        sell_price |-> sell_price,
                        exc |-> "none"]
        /\ pre_positions' = positions
        /\ trade_history' =
               <<trade_record(symbol, sell_price)>> \o trade_history
        /\ positions' = del_position(symbol)
        /\ UNCHANGED <<config, collaborators, equity_curve, strategy,
                       inflight>>

RemovePosition ==
    \E symbol \in Symbols, sell_price \in SellPricesIn :
        /\ lastCall' = [op |-> "remove_position",
                        symbol |-> symbol,
                        sell_price |-> sell_price,
                        exc |-> IF /\ symbol \in DOMAIN positions
                                   /\ positions[symbol].cost_price = 0
                                THEN "ZeroDivisionError" ELSE "none"]
        /\ pre_positions' = positions
        /\ IF symbol \notin DOMAIN positions
           THEN UNCHANGED <<positions, trade_history>>
           ELSE IF positions[symbol].cost_price = 0
           THEN UNCHANGED <<positions, trade_history>>
           ELSE /\ Len(trade_history) < MaxTrades
                /\ trade_history' =
                       Append(trade_history, trade_record(symbol, sell_price))
                /\ positions' = del_position(symbol)
        /\ UNCHANGED <<config, collaborators, equity_curve, strategy,
                       inflight>>

\* calculate_risk_metrics with current_value drawn from `values`
CalculateRiskMetricsOver(values) ==
    \E current_value \in values :
        /\ lastCall' = [op |-> "calculate_risk_metrics",
                        current_value |-> current_value,
                        exc |-> calculate_risk_metrics(current_value).exc,
                        ret |-> calculate_risk_metrics(current_value)]
        /\ pre_positions' = positions
        /\ UNCHANGED <<config, collaborators, portfolio, strategy, inflight>>

CalculateRiskMetrics == CalculateRiskMetricsOver(ValuesIn)

\* get_portfolio_status that also logs the value it was given to the curve
GetPortfolioStatusRecording ==
    \E current_value \in ValuesIn :
        /\ lastCall' = [op |-> "get_portfolio_status",
                        current_value |-> current_value,
                        exc |-> get_portfolio_status(current_value).exc,
                        ret |-> get_portfolio_status(current_value)]
        /\ pre_positions' = positions
        /\ equity_curve' = Append(equity_curve, current_value)
        /\ UNCHANGED <<config, collaborators, positions, trade_history,
                       strategy, inflight>>

GetPortfolioStatus ==
    \E current_value \in ValuesIn :
        /\ lastCall' = [op |-> "get_portfolio_status",
                        current_value |-> current_value,
                        exc |-> get_portfolio_status(current_value).exc,
                        ret |-> get_portfolio_status(current_value)]
        /\ pre_positions' = positions
        /\ UNCHANGED <<config, collaborators, portfolio, strategy, inflight>>

ShouldStopTrading ==
    \E current_value \in ValuesIn :
        /\ lastCall' = [op |-> "should_stop_trading",
                        current_value |-> current_value,
                        exc |-> "none",
                        ret |-> should_stop_trading(current_value)]
        /\ pre_positions' = positions
        /\ UNCHANGED <<config, collaborators, portfolio, strategy, inflight>>

\* the caller's mark-to-market: risk_manager.equity_curve.append({... 'value'})
MarkToMarketOver(values) ==
    \E value \in values :
        /\ Len(equity_curve) < MaxEquity
        /\ equity_curve' = Append(equity_curve, value)
        /\ lastCall' = [op |-> "mark_to_market", value |-> value,
                        exc |-> "none"]
        /\ pre_positions' = positions
        /\ UNCHANGED <<config, collaborators, positions, trade_history,
                       strategy, inflight>>

MarkToMarket == MarkToMarketOver(EquityIn)

Next ==
    \/ CheckStopLoss
    \/ CheckTakeProfit
    \/ CanOpenPosition
    \/ AddPosition
    \/ RemovePosition
    \/ CalculateRiskMetrics
    \/ GetPortfolioStatus
    \/ ShouldStopTrading

Spec == Init /\ [][Next]_vars

(***************************************************************************)
(* The portfolio under mark-to-market: the operations that write the       *)
(* portfolio, the caller's equity-curve updates, and the two reports that  *)
(* read all of it.                                                         *)
(***************************************************************************)
NextMark ==
    \/ AddPosition
    \/ RemovePosition
    \/ MarkToMarket
    \/ CalculateRiskMetrics
    \/ GetPortfolioStatus

\* RiskManager.__init__ with the default max_position_count, which none of
\* these operations reads
InitMark ==
    /\ initial_capital = 100000
    /\ max_position_weight = 30
    /\ stop_loss_ratio = 10
    /\ take_profit_ratio = 20
    /\ max_drawdown_limit = 15
    /\ max_position_count = 5
    /\ positions = <<>>
    /\ trade_history = <<>>
    /\ equity_curve = <<>>
    /\ StrategyIdle
    /\ lastCall = [op |-> "__init__", exc |-> "none"]
    /\ pre_positions = <<>>
    /\ inflight = [c \in Callers |-> IdleCall]
    /\ CollaboratorsIdle

SpecMark == InitMark /\ [][NextMark]_vars

(***************************************************************************)
(* Position sizing on its own: calculate_position_size reads only the      *)
(* configuration, so it is explored over constructor arguments and inputs. *)
(***************************************************************************)
InitSize ==
    /\ initial_capital = 100000
    /\ max_position_weight \in MaxWeightIn
    /\ stop_loss_ratio \in StopLossIn
    /\ take_profit_ratio = 20
    /\ max_drawdown_limit = 15
    /\ max_position_count = 5
    /\ positions = <<>>
    /\ trade_history = <<>>
    /\ equity_curve = <<>>
    /\ StrategyIdle
    /\ lastCall = [op |-> "__init__", exc |-> "none"]
    /\ pre_positions = <<>>
    /\ inflight = [c \in Callers |-> IdleCall]
    /\ CollaboratorsIdle

NextSize == CalculatePositionSize

SpecSize == InitSize /\ [][NextSize]_vars

(***************************************************************************)
(* MovingAverageStrategy                                                   *)
(***************************************************************************)
RECURSIVE SumRange(_, _, _)
\* close[lo] + ... + close[hi]
SumRange(close, lo, hi) ==
    IF lo > hi THEN 0 ELSE close[hi] + SumRange(close, lo, hi - 1)

\* df['close'].rolling(window=n).mean() at row `row` (1-based), as <<sum, n>>
rolling_mean(close, n, row) == <<SumRange(close, row - n + 1, row), n>>

\* row['ma_short'] > row['ma_long']
ma_short_above(close, row) ==
    RatLess(rolling_mean(close, long_ma, row), rolling_mean(close, short_ma, row))

\* generate_signal that emits on every cross, whatever self.position is
generate_signal_stateless(df) ==
    IF \/ df.kind = "None"
       \/ df.kind = "frame" /\ Len(df.close) < long_ma + 5
    THEN [position |-> position,
          ret |-> [signal |-> "hold", reason |-> "insufficient data"]]
    ELSE IF df.kind = "no_close"
    THEN [position |-> position,
          ret |-> [signal |-> "hold", reason |-> "KeyError"]]
    ELSE
    LET close == df.close
        n == Len(close)
        above == ma_short_above(close, n)
        prev_above == ma_short_above(close, n - 1)
        details(signal, reason) ==
            [signal |-> signal, reason |-> reason, price |-> close[n],
             ma_short |-> rolling_mean(close, short_ma, n),
             ma_long |-> rolling_mean(close, long_ma, n)]
    IN  IF above /\ ~prev_above
        THEN [position |-> "long", ret |-> details("buy", "golden cross")]
        ELSE IF ~above /\ prev_above
        THEN [position |-> "None", ret |-> details("sell", "death cross")]
        ELSE [position |-> position, ret |-> details("hold", "no cross")]

\* generate_signal on the frame the API returned: the returned dict and the
\* value self.position has when the method returns
generate_signal(df) ==
    IF \/ df.kind = "None"
       \/ df.kind = "frame" /\ Len(df.close) = 0
       \/ df.kind = "frame" /\ Len(df.close) < long_ma + 5
    THEN [position |-> position,
          ret |-> [signal |-> "hold", reason |-> "insufficient data"]]
    ELSE IF df.kind = "no_close"
    THEN \* df['close'] raises KeyError, caught by the except clause
         [position |-> position,
          ret |-> [signal |-> "hold", reason |-> "KeyError"]]
    ELSE
    LET close == df.close
        n == Len(close)
        above == ma_short_above(close, n)
        prev_above == ma_short_above(close, n - 1)
        details(signal, reason) ==
            [signal |-> signal, reason |-> reason, price |-> close[n],
             ma_short |-> rolling_mean(close, short_ma, n),
             ma_long |-> rolling_mean(close, long_ma, n)]
    IN  IF above /\ ~prev_above /\ (position = "None" \/ position # "long")
        THEN [position |-> "long", ret |-> details("buy", "golden cross")]
        ELSE IF ~(above /\ ~prev_above) /\ ~above /\ prev_above
                /\ position = "long"
        THEN [position |-> "None", ret |-> details("sell", "death cross")]
        ELSE [position |-> position, ret |-> details("hold", "no cross")]

\* MovingAverageStrategy.__init__(api, short_ma=1, long_ma=2): the shortest
\* windows, so that frames of long_ma + 5 bars stay few; the risk manager is
\* constructed and idle
InitMA ==
    /\ initial_capital = 100000
    /\ max_position_weight = 30
    /\ stop_loss_ratio = 10
    /\ take_profit_ratio = 20
    /\ max_drawdown_limit = 15
    /\ max_position_count = 5
    /\ positions = <<>>
    /\ trade_history = <<>>
    /\ equity_curve = <<>>
    /\ short_ma = 1
    /\ long_ma = 2
    /\ position = "None"
    /\ signalled_long = {}
    /\ last_signal = "none"
    /\ lastCall = [op |-> "__init__", exc |-> "none"]
    /\ pre_positions = <<>>
    /\ inflight = [c \in Callers |-> IdleCall]
    /\ CollaboratorsIdle

GenerateSignal ==
    \E df \in FramesIn :
        \E result \in {generate_signal(df)} :
            \E symbol \in Symbols :
                /\ position' = result.position
                /\ signalled_long' =
                       IF result.ret.signal = "buy"
                       THEN signalled_long \cup {symbol}
                       ELSE IF result.ret.signal = "sell"
                       THEN signalled_long \ {symbol}
                       ELSE signalled_long
                /\ last_signal' =
                       IF result.ret.signal \in {"buy", "sell"}
                       THEN result.ret.signal ELSE last_signal
                /\ lastCall' = [op |-> "generate_signal",
                                symbol |-> symbol,
                                df |-> df,
                                exc |-> "none",
                                ret |-> result.ret]
                /\ UNCHANGED <<config, collaborators, portfolio, short_ma,
                               long_ma, inflight, pre_positions>>

NextMA == GenerateSignal

SpecMA == InitMA /\ [][NextMA]_vars

(***************************************************************************)
(* DualMAStrategy: the moving-average strategy behind a trend filter and a *)
(* volatility filter                                                       *)
(***************************************************************************)
TrendWindow == 60   \* filter_by_trend: rows needed, and the MA window
VolWindow == 20     \* filter_by_volatility: rows needed
VolLimit == 5       \* filter_by_volatility: largest tolerated std (percent)
TailBars == 3       \* free bars at the end of a long price history

\* the symbol the filtered strategy is asked about
DualSymbols == {"600519"}

\* closing prices of the bars of a long history
DualClosesIn == {5, 6}

\* lengths of the histories: one below and one at each threshold the code
\* tests (long_ma + 5 = 7 rows, VolWindow rows, TrendWindow rows)
DualBarsIn == {6, 7, VolWindow - 1, VolWindow, TrendWindow - 1, TrendWindow}

\* what api.get_daily_price returns to DualMAStrategy: None, a frame without
\* a 'close' column, or a history that is flat up to its last TailBars bars
DualFramesIn ==
    {[kind |-> "None", close |-> <<>>], [kind |-> "no_close", close |-> <<>>]}
    \cup {[kind |-> "frame",
           close |-> [i \in 1..n |-> IF i <= n - TailBars THEN flat
                                     ELSE tail[i - (n - TailBars)]]] :
             n \in DualBarsIn, flat \in DualClosesIn,
             tail \in [1..TailBars -> DualClosesIn]}

\* what the second get_daily_price of one call returns (the parent method
\* fetches again): the same frame, or None when that request fails
SecondFetch(df) == {df, [kind |-> "None", close |-> <<>>]}

RECURSIVE ProductOf(_)
ProductOf(S) ==
    IF S = {} THEN 1
    ELSE LET k == CHOOSE x \in S : TRUE IN k * ProductOf(S \ {k})

\* a common multiple of the closing prices: ReturnScale * pct_change is whole
ReturnScale == ProductOf(DualClosesIn)

\* ReturnScale * df['close'].pct_change() at row i >= 2
scaled_return(close, i) ==
    ((close[i] - close[i - 1]) * ReturnScale) \div close[i - 1]

RECURSIVE SumReturns(_, _)
\* sum of the scaled returns of rows 2..hi
SumReturns(close, hi) ==
    IF hi < 2 THEN 0 ELSE scaled_return(close, hi) + SumReturns(close, hi - 1)

RECURSIVE SumSquaredReturns(_, _)
SumSquaredReturns(close, hi) ==
    IF hi < 2 THEN 0
    ELSE scaled_return(close, hi) * scaled_return(close, hi)
         + SumSquaredReturns(close, hi - 1)

\* returns.std() * 100 < limit, for the sample standard deviation (ddof = 1)
\* of the m = Len(close) - 1 returns:
\*   var = (m * sum(q^2) - sum(q)^2) / (m * (m - 1) * ReturnScale^2)
\*   std * 100 < limit  <=>  10000 * var < limit^2
std_percent_below(close, limit) ==
    LET m == Len(close) - 1
        s1 == SumReturns(close, Len(close))
        s2 == SumSquaredReturns(close, Len(close))
    IN  /\ m >= 2
        /\ 10000 * (m * s2 - s1 * s1)
           < limit * limit * m * (m - 1) * ReturnScale * ReturnScale

filter_by_trend(df) ==
    IF Len(df.close) < TrendWindow THEN TRUE
    ELSE RatLess(rolling_mean(df.close, TrendWindow, Len(df.close)),
                 <<df.close[Len(df.close)], 1>>)

filter_by_volatility(df) ==
    IF Len(df.close) < VolWindow THEN TRUE
    ELSE std_percent_below(df.close, VolLimit)

\* generate_signal that runs the parent's cross detection first and applies
\* the filters to what it returned
dual_generate_signal_filter_late(df, df2) ==
    IF \/ df.kind = "None"
       \/ df.kind = "frame" /\ Len(df.close) < long_ma + 5
    THEN [position |-> position,
          ret |-> [signal |-> "hold", reason |-> "insufficient data"]]
    ELSE IF df.kind = "no_close"
    THEN [position |-> position,
          ret |-> [signal |-> "hold", reason |-> "KeyError"]]
    ELSE IF ~filter_by_trend(df)
    THEN [position |-> generate_signal(df2).position,
          ret |-> [signal |-> "hold", reason |-> "trend filter"]]
    ELSE IF ~filter_by_volatility(df)
    THEN [position |-> generate_signal(df2).position,
          ret |-> [signal |-> "hold", reason |-> "volatility filter"]]
    ELSE generate_signal(df2)

\* DualMAStrategy.generate_signal on the frame df it fetched; df2 is the
\* frame the parent method fetches when the filters let the call through
dual_generate_signal(df, df2) ==
    IF \/ df.kind = "None"
       \/ df.kind = "frame" /\ Len(df.close) = 0
       \/ df.kind = "frame" /\ Len(df.close) < long_ma + 5
    THEN [position |-> position,
          ret |-> [signal |-> "hold", reason |-> "insufficient data"]]
    ELSE IF df.kind = "no_close"
    THEN \* df['close'] raises KeyError in a filter or in the parent method,
         \* each of which sits under an except clause that returns HOLD
         [position |-> position,
          ret |-> [signal |-> "hold", reason |-> "KeyError"]]
    ELSE IF ~filter_by_trend(df)
    THEN [position |-> position,
          ret |-> [signal |-> "hold", reason |-> "trend filter"]]
    ELSE IF ~filter_by_volatility(df)
    THEN [position |-> position,
          ret |-> [signal |-> "hold", reason |-> "volatility filter"]]
    ELSE generate_signal(df2)

DualGenerateSignal ==
    \E df \in DualFramesIn :
        \E df2 \in SecondFetch(df) :
            \E result \in {dual_generate_signal(df, df2)} :
                \E symbol \in DualSymbols :
                    /\ position' = result.position
                    /\ signalled_long' =
                           IF result.ret.signal = "buy"
                           THEN signalled_long \cup {symbol}
                           ELSE IF result.ret.signal = "sell"
                           THEN signalled_long \ {symbol}
                           ELSE signalled_long
                    /\ last_signal' =
                           IF result.ret.signal \in {"buy", "sell"}
                           THEN result.ret.signal ELSE last_signal
                    /\ lastCall' = [op |-> "DualMAStrategy.generate_signal",
                                    symbol |-> symbol,
                                    df |-> df,
                                    df2 |-> df2,
                                    exc |-> "none",
                                    ret |-> result.ret]
                    /\ UNCHANGED <<config, collaborators, portfolio,
                                   short_ma, long_ma, inflight,
                                   pre_positions>>

NextDual == DualGenerateSignal

\* DualMAStrategy.__init__(api, short_ma=1, long_ma=2) hands its windows to
\* MovingAverageStrategy.__init__
SpecDual == InitMA /\ [][NextDual]_vars

(***************************************************************************)
(* RiskManager shared by two callers.  The class takes no lock, so a       *)
(* method entered by one caller can be interleaved, statement by           *)
(* statement, with a method entered by the other.  remove_position is      *)
(* split at its reads and writes of the shared dict and list; a caller     *)
(* that opens a position calls can_open_position and then add_position.    *)
(* lastCall and pre_positions, which follow one caller's completed calls,  *)
(* stay as construction left them.                                         *)
(***************************************************************************)
\* the target weight the two callers ask for
ConcWeightsIn == {20}

\* can_open_position(symbol, w) by caller c; the caller goes on to
\* add_position only when the answer is (True, ...)
CallerCanOpen(c) ==
    \E symbol \in Symbols, proposed_weight \in ConcWeightsIn :
        /\ inflight[c].pc = "idle"
        /\ inflight' =
               IF /\ can_open_position(symbol, proposed_weight).exc = "none"
                  /\ can_open_position(symbol, proposed_weight).ret[1]
               THEN [inflight EXCEPT ![c] = [pc |-> "open_allowed",
                                             symbol |-> symbol,
                                             weight |-> proposed_weight]]
               ELSE inflight
        /\ UNCHANGED <<config, collaborators, portfolio, strategy, lastCall,
                       pre_positions>>

\* add_position(symbol, 100, 100.0, w) by the caller that was allowed to open
CallerAdd(c) ==
    /\ inflight[c].pc = "open_allowed"
    /\ positions' = add_position(inflight[c].symbol, LotSize, 1000,
                                 inflight[c].weight)
    /\ inflight' = [inflight EXCEPT ![c] = IdleCall]
    /\ UNCHANGED <<config, collaborators, trade_history, equity_curve,
                   strategy, lastCall, pre_positions>>

\* remove_position, `if symbol not in self.positions: return`
CallerRemoveCheck(c) ==
    \E symbol \in Symbols, sell_price \in SellPricesIn :
        /\ inflight[c].pc = "idle"
        /\ inflight' =
               IF symbol \notin DOMAIN positions THEN inflight
               ELSE [inflight EXCEPT ![c] = [pc |-> "remove_checked",
                                             symbol |-> symbol,
                                             sell_price |-> sell_price]]
        /\ UNCHANGED <<config, collaborators, portfolio, strategy, lastCall,
                       pre_positions>>

\* remove_position, `position = self.positions[symbol]` and the locals
\* computed from it; KeyError when the key is no longer there
CallerRemoveRead(c) ==
    /\ inflight[c].pc = "remove_checked"
    /\ inflight' =
           IF inflight[c].symbol \in DOMAIN positions
           THEN [inflight EXCEPT ![c] =
                    [pc |-> "remove_read",
                     symbol |-> inflight[c].symbol,
                     record |-> trade_record(inflight[c].symbol,
                                             inflight[c].sell_price)]]
           ELSE [inflight EXCEPT ![c] = [pc |-> "raised",
                                         exc |-> "KeyError"]]
    /\ UNCHANGED <<config, collaborators, portfolio, strategy, lastCall,
                   pre_positions>>

\* remove_position, `self.trade_history.append({...})`
CallerRemoveRecord(c) ==
    /\ inflight[c].pc = "remove_read"
    /\ Len(trade_history) < MaxTrades
    /\ trade_history' = Append(trade_history, inflight[c].record)
    /\ inflight' = [inflight EXCEPT ![c] = [pc |-> "remove_recorded",
                                           symbol |-> inflight[c].symbol]]
    /\ UNCHANGED <<config, collaborators, positions, equity_curve, strategy,
                   lastCall, pre_positions>>

\* remove_position, `del self.positions[symbol]`; KeyError when the key is
\* no longer there
CallerRemoveDel(c) ==
    /\ inflight[c].pc = "remove_recorded"
    /\ IF inflight[c].symbol \in DOMAIN positions
       THEN /\ positions' = del_position(inflight[c].symbol)
            /\ inflight' = [inflight EXCEPT ![c] = IdleCall]
       ELSE /\ positions' = positions
            /\ inflight' = [inflight EXCEPT ![c] = [pc |-> "raised",
                                                   exc |-> "KeyError"]]
    /\ UNCHANGED <<config, collaborators, trade_history, equity_curve,
                   strategy, lastCall, pre_positions>>

NextConc ==
    \E c \in Callers :
        \/ CallerCanOpen(c)
        \/ CallerAdd(c)
        \/ CallerRemoveCheck(c)
        \/ CallerRemoveRead(c)
        \/ CallerRemoveRecord(c)
        \/ CallerRemoveDel(c)

SpecConc == Init /\ [][NextConc]_vars

(***************************************************************************)
(* Score thresholds of the two signal paths                                *)
(* (src/src/utils/technical_analysis.py, TechnicalAnalyzer.generate_signal *)
(* and src/src/strategies/ai_stock_picker.py,                              *)
(* AIStockPicker.generate_trading_signal), and the indicators the first    *)
(* path reads them from.                                                   *)
(***************************************************************************)
\* scores handed to the threshold ladders
ScoresIn == 0..100

\* TechnicalAnalyzer.generate_signal, from `if score >= 80` on
technical_signal(score) ==
    IF score >= 80 THEN "strong_buy"
    ELSE IF score >= 65 THEN "buy"
    ELSE IF score >= 45 THEN "hold"
    ELSE IF score >= 30 THEN "sell"
    ELSE "strong_sell"

\* generate_trading_signal with the SELL floor of the technical path
picker_signal_sell_at_30(score) ==
    IF score >= 80 THEN "strong_buy"
    ELSE IF score >= 65 THEN "buy"
    ELSE IF score >= 50 THEN "hold"
    ELSE IF score >= 30 THEN "sell"
    ELSE "strong_sell"

\* AIStockPicker.generate_trading_signal, from `if score >= 80` on
picker_signal(score) ==
    IF score >= 80 THEN "strong_buy"
    ELSE IF score >= 65 THEN "buy"
    ELSE IF score >= 50 THEN "hold"
    ELSE IF score >= 35 THEN "sell"
    ELSE "strong_sell"

\* rows calculate_indicators asks for
MinBars == 60

\* an indicator field that is None, and one that holds the value v
None == [set |-> FALSE]
Some(v) == [set |-> TRUE, v |-> v]

\* lengths of the K-line frames handed to the analyzer
TechBarsIn == {0, 1, MinBars - 1, MinBars, MinBars + 1}

\* K-line frames handed to the analyzer: None, a frame of MinBars rows that
\* lacks a column the method reads, or a frame with every column whose
\* closes are flat up to the last bar (the empty frame included)
TechFramesIn ==
    {[kind |-> "None", close |-> <<>>, rows |-> 0],
     [kind |-> "no_close", close |-> <<>>, rows |-> MinBars]}
    \cup {[kind |-> "frame",
           close |-> [i \in 1..n |-> IF i < n THEN flat ELSE last],
           rows |-> n] :
             n \in TechBarsIn, flat \in DualClosesIn, last \in DualClosesIn}

\* the scores _calc_comprehensive_score can give: 50 plus or minus 20, 10 and
\* 5, clamped to 0..100, hence a multiple of 5
TechScoresIn == {5 * k : k \in 0..20}

\* TechnicalIndicators(): every field None, trend UNKNOWN, score 50.  The
\* MACD, RSI, Bollinger, ATR and volume fields are assigned together, after
\* ma5..ma120, and are kept as the one field `others`.
Sentinel ==
    [score |-> 50, ma5 |-> None, ma10 |-> None, ma20 |-> None,
     ma60 |-> None, ma120 |-> None, others |-> None, trend |-> "unknown"]

\* _sma(series, period) as <<sum, period>>, None on a short series
_sma(close, period) ==
    IF Len(close) < period THEN None
    ELSE Some(rolling_mean(close, period, Len(close)))

\* _judge_trend on the moving averages
_judge_trend(ma5, ma20, ma60) ==
    IF ~ma5.set \/ ~ma20.set THEN "unknown"
    ELSE IF /\ RatLess(ma20.v, ma5.v) /\ RatLess(ma60.v, ma20.v)
            /\ RatLess(<<102 * ma20.v[1], 100 * ma20.v[2]>>, ma5.v)
    THEN "uptrend"
    ELSE IF /\ RatLess(ma5.v, ma20.v) /\ RatLess(ma20.v, ma60.v)
            /\ RatLess(ma5.v, <<98 * ma20.v[1], 100 * ma20.v[2]>>)
    THEN "downtrend"
    ELSE "sideways"

\* the indicators of a frame that passed the length test
computed_indicators(df, score) ==
    [score |-> score,
     ma5 |-> _sma(df.close, 5), ma10 |-> _sma(df.close, 10),
     ma20 |-> _sma(df.close, 20), ma60 |-> _sma(df.close, 60),
     ma120 |-> IF df.rows >= 120 THEN _sma(df.close, 120) ELSE None,
     others |-> Some("computed"),
     trend |-> _judge_trend(_sma(df.close, 5), _sma(df.close, 20),
                            _sma(df.close, 60))]

\* calculate_indicators that computes whatever the rows it got allow
calculate_indicators_any_length(df, score) ==
    IF df.kind = "None" \/ df.rows = 0 THEN Sentinel
    ELSE IF df.kind = "no_close" THEN Sentinel
    ELSE computed_indicators(df, score)

\* calculate_indicators(df); `score` is what _calc_comprehensive_score makes
\* of the trend, the MACD histogram and RSI12 of the frame
calculate_indicators(df, score) ==
    IF df.kind = "None" \/ df.rows = 0 \/ df.rows < MinBars THEN Sentinel
    ELSE IF df.kind = "no_close"
    THEN \* df['close'] raises KeyError, caught by the except clause
         Sentinel
    ELSE computed_indicators(df, score)

CalculateIndicators ==
    \E df \in TechFramesIn, score \in TechScoresIn :
        /\ lastCall' = [op |-> "calculate_indicators",
                        df |-> df,
                        exc |-> "none",
                        indicators |-> calculate_indicators(df, score)]
        /\ UNCHANGED <<config, collaborators, portfolio, strategy, inflight,
                       pre_positions>>

\* TechnicalAnalyzer.generate_signal(df)
TechnicalGenerateSignal ==
    \E df \in TechFramesIn, score \in TechScoresIn :
        \E indicators \in {calculate_indicators(df, score)} :
            /\ lastCall' = [op |-> "TechnicalAnalyzer.generate_signal",
                            df |-> df,
                            indicators |-> indicators,
                            has_data |-> indicators.ma5.set,
                            score |-> indicators.score,
                            exc |-> "none",
                            ret |-> IF ~indicators.ma5.set
                                    THEN [signal |-> "hold",
                                          reason |-> "insufficient data"]
                                    ELSE [signal |->
                                              technical_signal(indicators.score),
                                          reason |-> "score"]]
            /\ UNCHANGED <<config, collaborators, portfolio, strategy,
                           inflight, pre_positions>>

\* symbols handed to pick_by_ai_score
PickSymbols == {"600519", "000001", "300750"}

\* what the analysis of one symbol comes to: the history is None, is shorter
\* than 30 bars, the analysis raises, or it gives a score
PickOutcomesIn ==
    {<<"None", 0>>, <<"short", 0>>, <<"raises", 0>>,
     <<"scored", 60>>, <<"scored", 70>>}

\* the symbol lists handed to pick_by_ai_score: no symbol twice
PickListsIn ==
    {l \in UNION {[1..n -> PickSymbols] : n \in 0..Cardinality(PickSymbols)} :
        \A i, j \in 1..Len(l) : i # j => l[i] # l[j]}

RECURSIVE scored_results(_, _)
\* the `for symbol in symbols` loop: `results`, in input order; a symbol whose
\* history is missing or short, or whose analysis raises, is passed over
scored_results(symbols, outcome) ==
    IF symbols = <<>> THEN <<>>
    ELSE LET symbol == Head(symbols)
             rest == scored_results(Tail(symbols), outcome)
         IN  IF outcome[symbol][1] = "scored"
             THEN <<[symbol |-> symbol, score |-> outcome[symbol][2]]>>
                  \o rest
             ELSE rest

RECURSIVE insert_after_ties(_, _)
\* x put behind the entries that score as much as x or more
insert_after_ties(x, sorted) ==
    IF sorted = <<>> THEN <<x>>
    ELSE IF Head(sorted).score < x.score THEN <<x>> \o sorted
    ELSE <<Head(sorted)>> \o insert_after_ties(x, Tail(sorted))

RECURSIVE insert_by_score(_, _)
\* x put in front of the first entry that scores as much as x or less
insert_by_score(x, sorted) ==
    IF sorted = <<>> THEN <<x>>
    ELSE IF Head(sorted).score <= x.score THEN <<x>> \o sorted
    ELSE <<Head(sorted)>> \o insert_by_score(x, Tail(sorted))

RECURSIVE sort_ties_reversed(_)
\* a descending sort that leaves equal scores in reverse input order, as
\* sorted(results, key=...)[::-1] would
sort_ties_reversed(results) ==
    IF results = <<>> THEN <<>>
    ELSE insert_after_ties(Head(results), sort_ties_reversed(Tail(results)))

RECURSIVE sorted_by_score(_)
\* sorted(results, key=lambda x: x['score'], reverse=True): descending and
\* stable, so entries of equal score keep their order in `results`
sorted_by_score(results) ==
    IF results = <<>> THEN <<>>
    ELSE insert_by_score(Head(results), sorted_by_score(Tail(results)))

pick_by_ai_score(symbols, outcome) ==
    sorted_by_score(scored_results(symbols, outcome))

PickByAiScore ==
    \E symbols \in PickListsIn :
        \E outcome \in [{symbols[i] : i \in 1..Len(symbols)}
                            -> PickOutcomesIn] :
            /\ lastCall' = [op |-> "pick_by_ai_score",
                            symbols |-> symbols,
                            outcome |-> outcome,
                            exc |-> "none",
                            ret |-> pick_by_ai_score(symbols, outcome)]
            /\ UNCHANGED <<config, collaborators, portfolio, strategy,
                           inflight, pre_positions>>

NextPick == PickByAiScore

SpecPick == InitMark /\ [][NextPick]_vars

\* what generate_trading_signal's own get_daily_price returns: a history
\* that is None or short, or one of 30 bars or more
FirstFetchIn == {"None", "short", "enough"}

\* AIStockPicker.generate_trading_signal(symbol); `outcome` is what
\* pick_by_ai_score([symbol]) makes of the symbol
GenerateTradingSignal ==
    \E symbol \in DualSymbols, fetched \in FirstFetchIn,
       kind \in {"short", "raises", "scored"}, score \in ScoresIn :
        \E scores \in {pick_by_ai_score(<<symbol>>,
                                        [s \in {symbol} |-> <<kind, score>>])} :
            /\ (fetched = "enough" /\ kind = "scored") \/ score = 50
            /\ fetched = "enough" \/ kind = "short"
            /\ lastCall' = [op |-> "AIStockPicker.generate_trading_signal",
                            fetched |-> fetched,
                            kind |-> kind,
                            has_data |-> fetched = "enough" /\ scores # <<>>,
                            score |-> score,
                            exc |-> "none",
                            ret |-> IF fetched # "enough"
                                    THEN [signal |-> "hold",
                                          reason |-> "insufficient data"]
                                    ELSE IF scores = <<>>
                                    THEN [signal |-> "hold",
                                          reason |-> "cannot analyse"]
                                    ELSE [signal |->
                                              picker_signal(scores[1].score),
                                          reason |-> "score"]]
            /\ UNCHANGED <<config, collaborators, portfolio, strategy,
                           inflight, pre_positions>>

NextScore ==
    \/ CalculateIndicators
    \/ TechnicalGenerateSignal
    \/ GenerateTradingSignal

SpecScore == InitMark /\ [][NextScore]_vars

(***************************************************************************)
(* Risk grading: positions of several target weights, an equity curve      *)
(* with drawdowns on either side of each grade, and calculate_risk_metrics *)
(* asked at a positive and at a zero portfolio value.                      *)
(***************************************************************************)
\* target weights handed to add_position (percent)
RiskWeightsIn == {20, 35, 45}

\* values appended to the equity curve: drawdowns of 6, 12 and 25 percent
RiskEquityIn == {100000, 94000, 88000, 75000}

\* portfolio values handed to calculate_risk_metrics
RiskValuesIn == {0, 100000}

RiskAddPosition == AddPositionOver(RiskWeightsIn)

RiskMarkToMarket == MarkToMarketOver(RiskEquityIn)

RiskCalculateRiskMetrics == CalculateRiskMetricsOver(RiskValuesIn)

NextRisk ==
    \/ RiskAddPosition
    \/ RiskMarkToMarket
    \/ RiskCalculateRiskMetrics

SpecRisk == InitMark /\ [][NextRisk]_vars

(***************************************************************************)
(* The drawdown report: the portfolio operations, an equity curve whose    *)
(* values include a total loss (0), and calculate_risk_metrics.            *)
(***************************************************************************)
\* values appended to the equity curve (tenths of a yuan): a total loss and
\* two values a tenth apart, small enough for the products of the comparison
DrawdownEquityIn == {0, 900, 1000}

\* target weight of the positions opened here (the drawdown does not read it)
DrawdownWeightsIn == {20}

DrawdownAddPosition == AddPositionOver(DrawdownWeightsIn)

DrawdownMarkToMarket == MarkToMarketOver(DrawdownEquityIn)

NextDrawdown ==
    \/ DrawdownAddPosition
    \/ RemovePosition
    \/ DrawdownMarkToMarket
    \/ CalculateRiskMetrics

SpecDrawdown == InitMark /\ [][NextDrawdown]_vars

(***************************************************************************)
(* The composite technical score                                           *)
(* (src/src/utils/technical_analysis.py, _calc_comprehensive_score), on    *)
(* every combination of the three indicator fields it reads.  RSI values   *)
(* are counted in tenths of a point, so 40 is 400.                         *)
(***************************************************************************)
\* TrendType
TrendsIn == {"uptrend", "downtrend", "sideways", "unknown"}

\* indicators.histogram: None, or a negative, zero or positive value
HistogramsIn == {None} \cup {Some(h) : h \in {-1, 0, 1}}

\* indicators.rsi12: None, or a value at, just below or just above each cut
\* point the score tests (30, 40, 60, 70) and at both ends of the RSI range
RsiIn ==
    {None}
    \cup {Some(r) : r \in {0, 299, 300, 301, 399, 400, 500, 600, 601,
                           700, 701, 1000}}

\* _calc_comprehensive_score that rewards an overbought RSI (> 70) as it
\* rewards an oversold one
_calc_comprehensive_score_overbought_bonus(trend, histogram, rsi12) ==
    LET after_trend ==
            IF trend = "uptrend" THEN 50 + 20
            ELSE IF trend = "downtrend" THEN 50 - 20
            ELSE 50
        after_macd ==
            IF ~histogram.set THEN after_trend
            ELSE IF histogram.v > 0 THEN after_trend + 10
            ELSE IF histogram.v < 0 THEN after_trend - 10
            ELSE after_trend
        score ==
            IF ~rsi12.set THEN after_macd
            ELSE IF 400 <= rsi12.v /\ rsi12.v <= 600 THEN after_macd + 5
            ELSE IF rsi12.v > 700 THEN after_macd + 5
            ELSE IF rsi12.v < 300 THEN after_macd + 5
            ELSE after_macd
    IN  IF Min(score, 100) >= 0 THEN Min(score, 100) ELSE 0

\* _calc_comprehensive_score on the fields of `indicators` it reads
_calc_comprehensive_score(trend, histogram, rsi12) ==
    LET after_trend ==
            IF trend = "uptrend" THEN 50 + 20
            ELSE IF trend = "downtrend" THEN 50 - 20
            ELSE 50
        after_macd ==
            IF ~histogram.set THEN after_trend
            ELSE IF histogram.v > 0 THEN after_trend + 10
            ELSE IF histogram.v < 0 THEN after_trend - 10
            ELSE after_trend
        score ==
            IF ~rsi12.set THEN after_macd
            ELSE IF 400 <= rsi12.v /\ rsi12.v <= 600 THEN after_macd + 5
            ELSE IF rsi12.v > 700 THEN after_macd - 5
            ELSE IF rsi12.v < 300 THEN after_macd + 5
            ELSE after_macd
    IN  \* max(min(score, 100), 0)
        IF Min(score, 100) >= 0 THEN Min(score, 100) ELSE 0

CalcComprehensiveScore ==
    \E trend \in TrendsIn, histogram \in HistogramsIn, rsi12 \in RsiIn :
        /\ lastCall' = [op |-> "_calc_comprehensive_score",
                        trend |-> trend,
                        histogram |-> histogram,
                        rsi12 |-> rsi12,
                        exc |-> "none",
                        ret |-> _calc_comprehensive_score(
                                    trend, histogram, rsi12)]
        /\ UNCHANGED <<config, collaborators, portfolio, strategy, inflight,
                       pre_positions>>

NextComposite == CalcComprehensiveScore

SpecComposite == InitMark /\ [][NextComposite]_vars

(***************************************************************************)
(* RSI (src/src/utils/technical_analysis.py, _rsi).  A float is            *)
(* <<"num", n, d>> for the finite value n / d (d > 0), <<"inf">> or        *)
(* <<"nan">>: the pandas division avg_gain / avg_loss raises nothing, it   *)
(* gives inf for x / 0 with x > 0 and NaN for 0 / 0.                       *)
(***************************************************************************)
MaxRsiBars == 4     \* longest close series handed to _rsi

\* periods asked of _rsi (the analyzer asks 6, 12 and 24: the shortest
\* windows that let a series of MaxRsiBars closes fill them stand in)
RsiPeriodsIn == {2, 3}

\* closing prices of the series
RsiClosesIn == {1, 2, 3}

RECURSIVE SeqsOfLen(_, _)
\* the sequences of n elements of S
SeqsOfLen(S, n) ==
    IF n = 0 THEN {<<>>}
    ELSE {Append(s, x) : s \in SeqsOfLen(S, n - 1), x \in S}

\* close series handed to _rsi, the empty one included
RsiSeriesIn == UNION {SeqsOfLen(RsiClosesIn, n) : n \in 0..MaxRsiBars}

Num(n, d) == <<"num", n, d>>
Inf == <<"inf">>
NaN == <<"nan">>

\* a / b for floats a = an / ad >= 0 and b = bn / bd >= 0
float_div(an, ad, bn, bd) ==
    IF bn = 0 THEN (IF an = 0 THEN NaN ELSE Inf)
    ELSE Num(an * bd, ad * bn)

\* delta.where(delta > 0, 0) at row i: the first row's delta is NaN, and
\* NaN > 0 is false
gain_at(series, i) ==
    IF i >= 2 /\ series[i] - series[i - 1] > 0
    THEN series[i] - series[i - 1] ELSE 0

\* (-delta).where(delta < 0, 0) at row i
loss_at(series, i) ==
    IF i >= 2 /\ series[i] - series[i - 1] < 0
    THEN series[i - 1] - series[i] ELSE 0

RECURSIVE SumGain(_, _, _)
\* gain summed over rows lo..hi
SumGain(series, lo, hi) ==
    IF lo > hi THEN 0 ELSE gain_at(series, hi) + SumGain(series, lo, hi - 1)

RECURSIVE SumLoss(_, _, _)
SumLoss(series, lo, hi) ==
    IF lo > hi THEN 0 ELSE loss_at(series, hi) + SumLoss(series, lo, hi - 1)

\* 100 - (100 / (1 + rs))
rsi_of(rs) ==
    IF rs = NaN THEN NaN
    ELSE IF rs = Inf THEN \* 100 / inf is 0.0
         Num(100, 1)
    ELSE Num(100 * (rs[2] + rs[3]) - 100 * rs[3], rs[2] + rs[3])

\* _rsi that answers the neutral 50 whenever the average loss is zero
_rsi_neutral_without_loss(series, period) ==
    IF Len(series) < period + 1 THEN Num(50, 1)
    ELSE
    LET n == Len(series)
        rs == float_div(SumGain(series, n - period + 1, n), period,
                        SumLoss(series, n - period + 1, n), period)
    IN  IF rs = NaN \/ rs = Inf THEN Num(50, 1) ELSE rsi_of(rs)

\* _rsi(series, period): the returned float
_rsi(series, period) ==
    IF Len(series) < period + 1 THEN Num(50, 1)
    ELSE
    LET n == Len(series)
        \* rolling(window=period).mean() at the last row
        rs == float_div(SumGain(series, n - period + 1, n), period,
                        SumLoss(series, n - period + 1, n), period)
    IN  \* rsi.iloc[-1] if not pd.isna(rsi.iloc[-1]) else 50.0
        IF rsi_of(rs) = NaN THEN Num(50, 1) ELSE rsi_of(rs)

Rsi ==
    \E series \in RsiSeriesIn, period \in RsiPeriodsIn :
        /\ lastCall' = [op |-> "_rsi",
                        series |-> series,
                        period |-> period,
                        exc |-> "none",
                        ret |-> _rsi(series, period)]
        /\ UNCHANGED <<config, collaborators, portfolio, strategy, inflight,
                       pre_positions>>

NextRsi == Rsi

SpecRsi == InitMark /\ [][NextRsi]_vars

(***************************************************************************)
(* The factor scores of the stock picker                                   *)
(* (src/src/strategies/ai_stock_picker.py, _calc_momentum_score,           *)
(* _calc_trend_score, _calc_volume_score, _calc_volatility_score, and the  *)
(* weighted sum pick_by_ai_score makes of them).                           *)
(*                                                                         *)
(* The frame the data API holds is drawn at the start and the four scores  *)
(* and the sum are computed on it.  A score is the triple <<r, c, q>> of   *)
(* rationals standing for r + c * sqrt(q): the volatility score is linear  *)
(* in a standard deviation, whose square q is rational.                    *)
(***************************************************************************)
\* closing prices of the bars
PickerClosesIn == {9, 10, 20}

\* a common multiple of the closing prices: PickerScale * pct_change is whole
PickerScale == 180

\* lengths of the frames: one below and one at each row count the scores
\* test (10, 20, 60) and the 30 rows pick_by_ai_score asks for
PickerBarsIn == {9, 10, 19, 20, 30, 60}

\* volume of the last five bars and of the bars before them
RecentVolumesIn == {0, 1, 10}
OldVolumesIn == {0, 1, 4}

RECURSIVE Repeat(_, _)
\* n times the value x
Repeat(x, n) == IF n = 0 THEN <<>> ELSE Append(Repeat(x, n - 1), x)

\* what the data API may hold: None, a frame of 30 rows without the 'close'
\* and 'vol' columns, or a frame whose closes are flat up to the last
\* TailBars bars and whose volume changes once, five bars before the end
PickerFramesIn ==
    {NoMarket, <<"no_columns", 30, <<>>, <<>>>>}
    \cup {<<"frame", n, Repeat(flat, n - TailBars) \o tail,
            Repeat(old, n - 5) \o Repeat(recent, 5)>> :
             n \in PickerBarsIn, flat \in PickerClosesIn,
             tail \in SeqsOfLen(PickerClosesIn, TailBars),
             old \in OldVolumesIn, recent \in RecentVolumesIn}

\* a score that is the rational r
Plain(r) == <<r, <<0, 1>>, <<0, 1>>>>

\* the neutral score 50.0
Neutral == Plain(<<50, 1>>)

\* Python min(a, b) and max(a, b) on rationals
RatMin(a, b) == IF RatLess(b, a) THEN b ELSE a
RatMax(a, b) == IF RatLess(a, b) THEN b ELSE a

\* PickerScale * df['close'].pct_change(periods=k) at row i > k
scaled_change(close, k, i) ==
    ((close[i] - close[i - k]) * PickerScale) \div close[i - k]

RECURSIVE SumChange(_, _, _, _)
\* the scaled k-period changes of rows lo..hi, summed
SumChange(close, k, lo, hi) ==
    IF lo > hi THEN 0
    ELSE scaled_change(close, k, hi) + SumChange(close, k, lo, hi - 1)

RECURSIVE SumSquaredChange(_, _, _, _)
SumSquaredChange(close, k, lo, hi) ==
    IF lo > hi THEN 0
    ELSE scaled_change(close, k, hi) * scaled_change(close, k, hi)
         + SumSquaredChange(close, k, lo, hi - 1)

\* series.iloc[-k:].mean() as <<sum, count>>: the last k rows, or all of them
tail_mean(series, k) ==
    LET n == Len(series)
        count == Min(k, n)
    IN  <<SumRange(series, n - count + 1, n), count>>

\* _calc_momentum_score without the clamp to 0..100
_calc_momentum_score_unclamped(df) ==
    IF df[1] = "None" THEN Neutral
    ELSE IF df[2] < 10 THEN Neutral
    ELSE IF df[1] = "no_columns" THEN Neutral
    ELSE
    LET close == df[3]
        n == Len(close)
        recent_return ==
            IF n - 5 >= 5
            THEN <<100 * SumChange(close, 5, n - 4, n), 5 * PickerScale>>
            ELSE <<0, 1>>
    IN  Plain(RatAdd(RatMul(recent_return, <<10, 1>>), <<50, 1>>))

\* _calc_momentum_score(df)
_calc_momentum_score(df) ==
    IF df[1] = "None" THEN \* len(None) raises TypeError, caught
         Neutral
    ELSE IF df[2] < 10 THEN Neutral
    ELSE IF df[1] = "no_columns" THEN \* df['close'] raises KeyError, caught
         Neutral
    ELSE
    LET close == df[3]
        n == Len(close)
        \* returns = pct_change(periods=5).dropna() has n - 5 entries;
        \* returns.iloc[-5:].mean() * 100
        recent_return ==
            IF n - 5 >= 5
            THEN <<100 * SumChange(close, 5, n - 4, n), 5 * PickerScale>>
            ELSE <<0, 1>>
    IN  \* min(max(recent_return * 10 + 50, 0), 100)
        Plain(RatMin(RatMax(RatAdd(RatMul(recent_return, <<10, 1>>),
                                   <<50, 1>>),
                            <<0, 1>>),
                     <<100, 1>>))

\* _calc_trend_score(df)
_calc_trend_score(df) ==
    IF df[1] = "None" THEN Neutral
    ELSE IF df[2] < 20 THEN Neutral
    ELSE IF df[1] = "no_columns" THEN Neutral
    ELSE
    LET close == df[3]
        n == Len(close)
        current == <<close[n], 1>>
        ma5 == tail_mean(close, 5)
        ma20 == tail_mean(close, 20)
        ma60 == IF n >= 60 THEN tail_mean(close, 60) ELSE ma20
        score ==
            50 + (IF RatLess(ma5, current) THEN 10 ELSE 0)
               + (IF RatLess(ma20, current) THEN 15 ELSE 0)
               + (IF RatLess(ma60, current) THEN 15 ELSE 0)
               + (IF RatLess(ma20, ma5) /\ RatLess(ma60, ma20)
                  THEN 10 ELSE 0)
    IN  Plain(<<Min(score, 100), 1>>)

\* _calc_volume_score(df)
_calc_volume_score(df) ==
    IF df[1] = "None" THEN Neutral
    ELSE IF df[2] < 10 THEN Neutral
    ELSE IF df[1] = "no_columns" THEN Neutral
    ELSE
    LET recent_vol == tail_mean(df[4], 5)
        avg_vol == tail_mean(df[4], 20)
        vol_ratio ==
            IF avg_vol[1] > 0
            THEN RatNorm(<<recent_vol[1] * avg_vol[2],
                           recent_vol[2] * avg_vol[1]>>)
            ELSE <<1, 1>>
        score ==
            IF RatLeq(<<8, 10>>, vol_ratio) /\ RatLeq(vol_ratio, <<2, 1>>)
            THEN \* 70 + (vol_ratio - 1) * 20
                 RatAdd(<<70, 1>>,
                        RatMul(RatAdd(vol_ratio, <<-1, 1>>), <<20, 1>>))
            ELSE IF RatLess(vol_ratio, <<8, 10>>)
            THEN \* 50 + vol_ratio * 25
                 RatAdd(<<50, 1>>, RatMul(vol_ratio, <<25, 1>>))
            ELSE \* min(90 - (vol_ratio - 2) * 10, 90)
                 RatMin(RatAdd(<<90, 1>>,
                               RatNeg(RatMul(RatAdd(vol_ratio, <<-2, 1>>),
                                             <<10, 1>>))),
                        <<90, 1>>)
    IN  Plain(RatMax(RatMin(score, <<100, 1>>), <<0, 1>>))

\* (returns.std() * 100) squared, for the sample standard deviation of the
\* m = n - 1 one-bar changes:
\*   var = (m * sum(x^2) - sum(x)^2) / (m * (m - 1) * PickerScale^2)
squared_volatility(close) ==
    LET n == Len(close)
        m == n - 1
        s1 == SumChange(close, 1, 2, n)
        s2 == SumSquaredChange(close, 1, 2, n)
    IN  RatNorm(<<(10000 \div 100) * (m * s2 - s1 * s1),
                  ((PickerScale * PickerScale) \div 100) * m * (m - 1)>>)

\* _calc_volatility_score(df)
_calc_volatility_score(df) ==
    IF df[1] = "None" THEN Neutral
    ELSE IF df[2] < 20 THEN Neutral
    ELSE IF df[1] = "no_columns" THEN Neutral
    ELSE
    LET q == squared_volatility(df[3])
    IN  IF RatLeq(<<4, 1>>, q) /\ RatLeq(q, <<16, 1>>)
        THEN \* 2.0 <= volatility <= 4.0
             Plain(<<80, 1>>)
        ELSE IF RatLess(q, <<4, 1>>)
        THEN \* 60 + volatility * 10
             <<<<60, 1>>, <<10, 1>>, q>>
        ELSE \* max(80 - (volatility - 4) * 10, 40): 120 - 10 * volatility
             \* while volatility <= 8
             IF RatLeq(q, <<64, 1>>)
             THEN <<<<120, 1>>, <<-10, 1>>, q>>
             ELSE Plain(<<40, 1>>)

\* pick_by_ai_score(symbols, method="comprehensive") on one symbol: the
\* factors and the score it computes, and whether the symbol is skipped
comprehensive_score(df) ==
    IF df[1] = "None" \/ df[2] = 0 \/ df[2] < 30
    THEN [skipped |-> TRUE]
    ELSE
    LET momentum_score == _calc_momentum_score(df)
        trend_score == _calc_trend_score(df)
        volume_score == _calc_volume_score(df)
        volatility_score == _calc_volatility_score(df)
        \* momentum * 0.3 + trend * 0.3 + volume * 0.2 + volatility * 0.2
        score ==
            <<RatAdd(RatAdd(RatMul(momentum_score[1], <<3, 10>>),
                            RatMul(trend_score[1], <<3, 10>>)),
                     RatAdd(RatMul(volume_score[1], <<2, 10>>),
                            RatMul(volatility_score[1], <<2, 10>>))),
              RatMul(volatility_score[2], <<2, 10>>),
              volatility_score[3]>>
    IN  [skipped |-> \* latest['close'] raises KeyError, caught: continue
                     df[1] = "no_columns",
         momentum |-> momentum_score,
         trend |-> trend_score,
         volume |-> volume_score,
         volatility |-> volatility_score,
         score |-> score]

\* one call of an operation that reads the frame and writes nothing
Scored(op, ret) ==
    /\ lastCall' = [op |-> op, exc |-> "none", ret |-> ret]
    /\ UNCHANGED <<config, collaborators, portfolio, strategy, inflight,
                   pre_positions>>

CalcMomentumScore ==
    Scored("_calc_momentum_score", _calc_momentum_score(market))

CalcTrendScore == Scored("_calc_trend_score", _calc_trend_score(market))

CalcVolumeScore == Scored("_calc_volume_score", _calc_volume_score(market))

CalcVolatilityScore ==
    Scored("_calc_volatility_score", _calc_volatility_score(market))

ComprehensiveScore ==
    Scored("pick_by_ai_score", comprehensive_score(market))

NextFactor ==
    \/ CalcMomentumScore
    \/ CalcTrendScore
    \/ CalcVolumeScore
    \/ CalcVolatilityScore
    \/ ComprehensiveScore

\* the objects as constructed, and the frame the data API holds
InitFactor ==
    /\ initial_capital = 100000
    /\ max_position_weight = 30
    /\ stop_loss_ratio = 10
    /\ take_profit_ratio = 20
    /\ max_drawdown_limit = 15
    /\ max_position_count = 5
    /\ positions = <<>>
    /\ trade_history = <<>>
    /\ equity_curve = <<>>
    /\ StrategyIdle
    /\ lastCall = [op |-> "__init__", exc |-> "none"]
    /\ pre_positions = <<>>
    /\ inflight = [c \in Callers |-> IdleCall]
    /\ market \in PickerFramesIn
    /\ EngineIdle
    /\ BookIdle

SpecFactor == InitFactor /\ [][NextFactor]_vars

(***************************************************************************)
(* Positions opened with any arguments a caller can hand to add_position:  *)
(* share counts that are negative, zero, a whole lot or a lot and a half,  *)
(* and prices that are negative, zero or positive.                         *)
(***************************************************************************)
LotsSharesIn == {-100, 0, 100, 150}

LotsPricesIn == {-1000, 0, 1000}

LotsWeightsIn == {20}

LotsAddPosition == AddPositionWith(LotsSharesIn, LotsPricesIn, LotsWeightsIn)

NextLots ==
    \/ LotsAddPosition
    \/ RemovePosition

SpecLots == InitMark /\ [][NextLots]_vars

(***************************************************************************)
(* BacktestEngine.run: one iteration of the loop over the price rows       *)
(***************************************************************************)
MaxRunTrades == 4   \* longest BacktestEngine.trades explored

\* the strategy's answer for a row (SignalType)
RunSignalsIn == {"buy", "sell", "hold"}

\* row['close'] in tenths of a yuan; 0 is a row without a price
RunClosesIn == {0, 90, 100, 110}

\* commission = 0.001: cash is kept in ten-thousandths of a yuan, so that a
\* price in tenths times 1001 or 999 is the amount with the commission
CommissionUp == 1001
CommissionDown == 999

\* shares = int(self.cash / row['close'] / 100) * 100
run_shares(close) == Trunc(cash, close * 1000 * LotSize) * LotSize

BuyTrade(shares, close) ==
    [action |-> "BUY", shares |-> shares, price |-> close,
     amount |-> shares * close * CommissionUp]

SellTrade(close) ==
    [action |-> "SELL", shares |-> engine_position, price |-> close,
     amount |-> engine_position * close * CommissionDown]

EngineNow(exc) ==
    [cash |-> cash, position |-> engine_position, trades |-> trades,
     exc |-> exc]

\* the loop body without the test that the engine is flat before it buys
run_row_buying_while_held(signal, close) ==
    IF signal = "buy"
    THEN IF close = 0
         THEN EngineNow("OverflowError")
         ELSE IF run_shares(close) > 0
                 /\ run_shares(close) * close * CommissionUp <= cash
         THEN [cash |-> cash - run_shares(close) * close * CommissionUp,
               position |-> run_shares(close),
               trades |-> Append(trades, BuyTrade(run_shares(close), close)),
               exc |-> "none"]
         ELSE EngineNow("none")
    ELSE IF signal = "sell" /\ engine_position > 0
    THEN [cash |-> cash + engine_position * close * CommissionDown,
          position |-> 0,
          trades |-> Append(trades, SellTrade(close)),
          exc |-> "none"]
    ELSE EngineNow("none")

\* the loop body for one row: the engine after it.  A close of 0 makes
\* cash / close infinite and int() of it raises OverflowError
run_row(signal, close) ==
    IF signal = "buy" /\ engine_position = 0
    THEN IF close = 0
         THEN EngineNow("OverflowError")
         ELSE IF run_shares(close) > 0
                 /\ run_shares(close) * close * CommissionUp <= cash
         THEN [cash |-> cash - run_shares(close) * close * CommissionUp,
               position |-> run_shares(close),
               trades |-> Append(trades, BuyTrade(run_shares(close), close)),
               exc |-> "none"]
         ELSE EngineNow("none")
    ELSE IF signal = "sell" /\ engine_position > 0
    THEN [cash |-> cash + engine_position * close * CommissionDown,
          position |-> 0,
          trades |-> Append(trades, SellTrade(close)),
          exc |-> "none"]
    ELSE EngineNow("none")

RunRow ==
    \E signal \in RunSignalsIn, close \in RunClosesIn, symbol \in Symbols :
        \E after \in {run_row(signal, close)} :
            /\ Len(after.trades) <= MaxRunTrades
            /\ cash' = after.cash
            /\ engine_position' = after.position
            /\ trades' = after.trades
            /\ lastCall' = [op |-> "run", symbol |-> symbol,
                            signal |-> signal, close |-> close,
                            traded |-> after.trades # trades,
                            exc |-> after.exc]
            /\ UNCHANGED <<config, portfolio, strategy, inflight,
                           pre_positions, market, book>>

NextBacktest == RunRow

SpecBacktest == InitMark /\ [][NextBacktest]_vars

(***************************************************************************)
(* StrategyPortfolio: add_position and remove_position                     *)
(***************************************************************************)
MaxBookTrades == 3  \* longest StrategyPortfolio.trade_history explored

\* stock['score'] as the picker computed it, at and around the rungs of
\* the signal ladder
BookScoresIn == {20, 35, 50, 64, 65, 79, 80, 100}

\* stock['price'] and the quote's close, in tenths of a yuan
BookPricesIn == {0, 100, 300}

\* weight, in percent
BookWeightsIn == {0, 20}

\* generate_trading_signal answers HOLD without a price when the data is
\* short, nothing could be scored, or scoring raised
HoldNoData == [signal |-> "hold"]

\* what generate_trading_signal can answer
BookSignalsIn ==
    {HoldNoData}
    \cup {[signal |-> picker_signal(score), score |-> score,
           price |-> price] : score \in BookScoresIn, price \in BookPricesIn}

\* shares = int(available_capital / price / 100) * 100, price > 0
book_shares(weight, price) ==
    Trunc(current_capital * weight, price * 100 * LotSize) * LotSize

BookNow == [positions |-> portfolio_positions,
            trade_history |-> portfolio_trade_history]

\* add_position that buys on every signal naming a buy
portfolio_add_position_any_buy(symbol, weight, signal) ==
    IF symbol \in DOMAIN portfolio_positions THEN BookNow
    ELSE IF signal.signal \notin {"buy", "strong_buy"} THEN BookNow
    ELSE IF ~(signal.price > 0 /\ current_capital * weight > 0) THEN BookNow
    ELSE IF ~(book_shares(weight, signal.price) > 0) THEN BookNow
    ELSE [positions |->
              [s \in DOMAIN portfolio_positions \cup {symbol} |->
                  IF s = symbol
                  THEN [shares |-> book_shares(weight, signal.price),
                        price |-> signal.price,
                        weight |-> weight,
                        signal |-> signal.signal]
                  ELSE portfolio_positions[s]],
          trade_history |->
              Append(portfolio_trade_history,
                     [symbol |-> symbol,
                      action |-> "buy",
                      shares |-> book_shares(weight, signal.price),
                      price |-> signal.price,
                      signal |-> signal.signal])]

\* StrategyPortfolio.add_position: the book after it.  'strong_buy' does
\* not start with 'buy'
portfolio_add_position(symbol, weight, signal) ==
    IF symbol \in DOMAIN portfolio_positions THEN BookNow
    ELSE IF signal.signal # "buy" THEN BookNow
    ELSE IF ~(signal.price > 0 /\ current_capital * weight > 0) THEN BookNow
    ELSE IF ~(book_shares(weight, signal.price) > 0) THEN BookNow
    ELSE [positions |->
              [s \in DOMAIN portfolio_positions \cup {symbol} |->
                  IF s = symbol
                  THEN [shares |-> book_shares(weight, signal.price),
                        price |-> signal.price,
                        weight |-> weight,
                        signal |-> signal.signal]
                  ELSE portfolio_positions[s]],
          trade_history |->
              Append(portfolio_trade_history,
                     [symbol |-> symbol,
                      action |-> "buy",
                      shares |-> book_shares(weight, signal.price),
                      price |-> signal.price,
                      signal |-> signal.signal])]

PortfolioAddPosition ==
    \E symbol \in Symbols, weight \in BookWeightsIn, signal \in BookSignalsIn :
        \E after \in {portfolio_add_position(symbol, weight, signal)} :
            /\ Len(after.trade_history) <= MaxBookTrades
            /\ portfolio_positions' = after.positions
            /\ portfolio_trade_history' = after.trade_history
            /\ lastCall' = [op |-> "portfolio_add_position",
                            symbol |-> symbol,
                            weight |-> weight,
                            held |-> symbol \in DOMAIN portfolio_positions,
                            exc |-> "none",
                            ret |-> IF symbol \in DOMAIN portfolio_positions
                                    THEN [returned |-> "None"]
                                    ELSE signal]
            /\ UNCHANGED <<config, portfolio, strategy, inflight,
                           pre_positions, market, engine, current_capital>>

\* the quote API's answer: the symbol is missing from it, or has a close
BookQuotesIn ==
    {[listed |-> FALSE]}
    \cup {[listed |-> TRUE, close |-> price] : price \in BookPricesIn \ {0}}

\* StrategyPortfolio.remove_position
PortfolioRemovePosition ==
    \E symbol \in Symbols, quote \in BookQuotesIn :
        /\ lastCall' = [op |-> "portfolio_remove_position",
                        symbol |-> symbol,
                        quote |-> quote,
                        exc |-> "none"]
        /\ IF symbol \notin DOMAIN portfolio_positions \/ ~quote.listed
           THEN UNCHANGED <<portfolio_positions, portfolio_trade_history>>
           ELSE /\ Len(portfolio_trade_history) < MaxBookTrades
                /\ portfolio_trade_history' =
                       Append(portfolio_trade_history,
                              [symbol |-> symbol,
                               action |-> "sell",
                               shares |-> portfolio_positions[symbol].shares,
                               price |-> quote.close,
                               profit |->
                                   <<(quote.close
                                         - portfolio_positions[symbol].price)
                                         * 100,
                                     portfolio_positions[symbol].price>>])
                /\ portfolio_positions' =
                       [s \in DOMAIN portfolio_positions \ {symbol} |->
                           portfolio_positions[s]]
        /\ UNCHANGED <<config, portfolio, strategy, inflight, pre_positions,
                       market, engine, current_capital>>

NextBook == PortfolioAddPosition \/ PortfolioRemovePosition

SpecBook == InitMark /\ [][NextBook]_vars

(***************************************************************************)
(* The caller of examples/demo.py: add_position is issued only right after *)
(* can_open_position answered True for the same symbol                     *)
(***************************************************************************)
\* max_position_count handed to the constructor
MaxCountIn == {0, 1, 2}

InitGuarded ==
    /\ initial_capital = 100000
    /\ max_position_weight = 30
    /\ stop_loss_ratio = 10
    /\ take_profit_ratio = 20
    /\ max_drawdown_limit = 15
    /\ max_position_count \in MaxCountIn
    /\ positions = <<>>
    /\ trade_history = <<>>
    /\ equity_curve = <<>>
    /\ StrategyIdle
    /\ lastCall = [op |-> "__init__", exc |-> "none"]
    /\ pre_positions = <<>>
    /\ inflight = [c \in Callers |-> IdleCall]
    /\ CollaboratorsIdle

\* `if can_open:` with can_open the first element of the pair just returned
CanOpenJustGranted(symbol) ==
    /\ lastCall.op = "can_open_position"
    /\ lastCall.symbol = symbol
    /\ lastCall.exc = "none"
    /\ lastCall.ret[1]

GuardedAddPosition ==
    \E symbol \in Symbols, shares \in SharesIn, price \in PricesIn,
       target_weight \in WeightsIn :
        /\ CanOpenJustGranted(symbol)
        /\ positions' = add_position(symbol, shares, price, target_weight)
        /\ lastCall' = [op |-> "add_position",
                        symbol |-> symbol,
                        shares |-> shares,
                        price |-> price,
                        exc |-> "none"]
        /\ pre_positions' = positions
        /\ UNCHANGED <<config, collaborators, trade_history, equity_curve,
                       strategy, inflight>>

NextGuarded ==
    \/ CanOpenPosition
    \/ GuardedAddPosition
    \/ RemovePosition
    \/ CheckStopLoss

SpecGuarded == InitGuarded /\ [][NextGuarded]_vars

(***************************************************************************)
(* Properties                                                              *)
(***************************************************************************)
LastTrade == trade_history[Len(trade_history)]

\* sum of shares * cost_price over a positions dict
InvestedIn(pos) ==
    SumOver([s \in DOMAIN pos |-> pos[s].shares * pos[s].cost_price],
            DOMAIN pos)

\* sum of the target weights of the held positions
HeldTargetWeight ==
    SumOver([s \in DOMAIN positions |-> positions[s].target_weight],
            DOMAIN positions)

\* C1: for valid input (price > 0, available_capital >= 0, stop_loss_ratio > 0,
\* max_position_weight > 0) calculate_position_size returns a non-negative
\* multiple of the lot size with shares * price <= available_capital *
\* max_position_weight.
C1_SizeWithinWeightCap ==
    (/\ lastCall.op = "calculate_position_size"
     /\ lastCall.price > 0
     /\ lastCall.available_capital >= 0
     /\ stop_loss_ratio > 0
     /\ max_position_weight > 0)
    => /\ lastCall.exc = "none"
       /\ lastCall.ret \in Nat
       /\ lastCall.ret % LotSize = 0
       /\ lastCall.ret * lastCall.price * 100
              <= lastCall.available_capital * max_position_weight

\* a valid sizing call that returned whole lots, with the weight cap binding
C1_Witness ==
    /\ lastCall.op = "calculate_position_size"
    /\ lastCall.price > 0
    /\ lastCall.available_capital > 0
    /\ lastCall.ret >= LotSize
    /\ lastCall.ret * lastCall.price * 100
           = lastCall.available_capital * max_position_weight

\* C2: can_open_position returns (False, reason) for a held symbol, else
\* (False, reason) at max_position_count, else (False, reason) when the held
\* target weights plus the proposed weight exceed max_position_weight *
\* max_position_count, else (True, reason) -- in every reachable state.
C2_CanOpenDecides ==
    lastCall.op = "can_open_position"
    => /\ lastCall.exc = "none"
       /\ lastCall.ret[1] =
            (/\ lastCall.symbol \notin DOMAIN positions
             /\ Cardinality(DOMAIN positions) < max_position_count
             /\ HeldTargetWeight + lastCall.proposed_weight
                    <= max_position_weight * max_position_count)

\* C3: every RiskManager operation returns or no-ops in every reachable
\* state; none raises.
C3_NoOperationRaises == lastCall.exc = "none"

\* C4: add_position on a held symbol (s1 shares at c1) with a new lot (s2 at
\* p2) leaves s1 + s2 shares at the volume-weighted cost
\* (s1*c1 + s2*p2) / (s1 + s2).
C4_RepeatBuyAverages ==
    [][(/\ lastCall'.op = "add_position"
        /\ lastCall'.shares > 0
        /\ lastCall'.price > 0
        /\ lastCall'.symbol \in DOMAIN positions)
       => LET old == positions[lastCall'.symbol]
              new == positions'[lastCall'.symbol]
          IN  /\ new.shares = old.shares + lastCall'.shares
              /\ new.cost_price * (old.shares + lastCall'.shares)
                     = old.shares * old.cost_price
                           + lastCall'.shares * lastCall'.price]_vars

\* C5: remove_position on a held symbol appends exactly one trade record
\* carrying the position's shares and cost and profit_pct = (sell_price -
\* cost_price) / cost_price * 100, and the symbol is no longer held; on a
\* symbol that is not held, positions and trade_history stay as they were.
C5_RemoveRecordsAndDeletes ==
    [][lastCall'.op = "remove_position"
       => IF lastCall'.symbol \in DOMAIN positions
          THEN LET old == positions[lastCall'.symbol]
                   rec == trade_history'[Len(trade_history')]
               IN  /\ Len(trade_history') = Len(trade_history) + 1
                   /\ SubSeq(trade_history', 1, Len(trade_history))
                          = trade_history
                   /\ rec.symbol = lastCall'.symbol
                   /\ rec.shares = old.shares
                   /\ rec.buy_price = old.cost_price
                   /\ rec.sell_price = lastCall'.sell_price
                   /\ RatEq(rec.profit_pct,
                            <<(lastCall'.sell_price - old.cost_price) * 100,
                              old.cost_price>>)
                   /\ lastCall'.symbol \notin DOMAIN positions'
          ELSE UNCHANGED <<positions, trade_history>>]_vars

\* a held symbol was just sold at a loss: its record is the last trade
C5_Witness ==
    /\ lastCall.op = "remove_position"
    /\ lastCall.symbol \in DOMAIN pre_positions
    /\ lastCall.symbol \notin DOMAIN positions
    /\ DOMAIN positions # {}
    /\ Len(trade_history) >= 2
    /\ LastTrade.symbol = lastCall.symbol
    /\ RatLess(LastTrade.profit_pct, <<0, 1>>)

\* C6: add_position(symbol, shares, price) with shares > 0 and price > 0 on a
\* symbol not held, immediately followed by remove_position(symbol, price),
\* records a trade with profit_pct = 0 and restores the positions map, and
\* with it the cash the reports derive (value - sum of shares * cost), to
\* what they were before the add.
C6_AddRemoveRoundTrip ==
    [][(/\ lastCall.op = "add_position"
        /\ lastCall.shares > 0
        /\ lastCall.price > 0
        /\ lastCall.symbol \notin DOMAIN pre_positions
        /\ lastCall'.op = "remove_position"
        /\ lastCall'.symbol = lastCall.symbol
        /\ lastCall'.sell_price = lastCall.price)
       => /\ Len(trade_history') = Len(trade_history) + 1
          /\ RatEq(trade_history'[Len(trade_history')].profit_pct, <<0, 1>>)
          /\ positions' = pre_positions
          /\ \A v \in ValuesIn :
                 v - InvestedIn(positions') = v - InvestedIn(pre_positions)]_vars

\* a position was just sold at its own cost while another one is held
C6_Witness ==
    /\ lastCall.op = "remove_position"
    /\ lastCall.symbol \in DOMAIN pre_positions
    /\ pre_positions[lastCall.symbol].cost_price = lastCall.sell_price
    /\ DOMAIN positions # {}
    /\ Len(trade_history) >= 1
    /\ LastTrade.profit_pct[1] = 0

\* C7: get_portfolio_status leaves positions, trade_history and equity_curve
\* unchanged, and a second call with the same current_value right after the
\* first returns the same report.
C7_StatusReadOnly ==
    [][lastCall'.op = "get_portfolio_status"
       => /\ UNCHANGED <<positions, trade_history, equity_curve>>
          /\ (/\ lastCall.op = "get_portfolio_status"
              /\ lastCall.current_value = lastCall'.current_value)
             => lastCall'.ret = lastCall.ret]_vars

\* a report was taken of a portfolio with a position, a trade and a curve
C7_Witness ==
    /\ lastCall.op = "get_portfolio_status"
    /\ lastCall.exc = "none"
    /\ DOMAIN positions # {}
    /\ Len(trade_history) >= 1
    /\ Len(equity_curve) >= 2
    /\ lastCall.ret.position_count = Cardinality(DOMAIN positions)

\* the last three trades all lost money
LastThreeLost ==
    /\ Len(trade_history) >= 3
    /\ \A i \in (Len(trade_history) - 2)..Len(trade_history) :
           RatLess(trade_history[i].profit_pct, <<0, 1>>)

\* C8: should_stop_trading returns True whenever (initial_capital -
\* current_value) / initial_capital >= max_drawdown_limit, and whenever the
\* last three trades all have profit_pct < 0, whatever the drawdown.
C8_StopTradingTrips ==
    lastCall.op = "should_stop_trading"
    => /\ (initial_capital - lastCall.current_value) * 100
              >= max_drawdown_limit * initial_capital
          => lastCall.ret[1] = TRUE
       /\ LastThreeLost => lastCall.ret[1] = TRUE

\* three losses in a row stop trading although the value shows no drawdown
C8_Witness ==
    /\ lastCall.op = "should_stop_trading"
    /\ lastCall.current_value = initial_capital
    /\ LastThreeLost
    /\ lastCall.ret[1] = TRUE

\* C9: check_stop_loss is True exactly when the symbol is held and
\* current_price <= cost_price * (1 - stop_loss_ratio): with cost 100 and
\* ratio 0.1, True at 89.9 and False at 90.1; False for a symbol not held.
C9_StopLossExact ==
    lastCall.op = "check_stop_loss"
    => /\ lastCall.ret =
            (/\ lastCall.symbol \in DOMAIN positions
             /\ 100 * lastCall.current_price
                    <= positions[lastCall.symbol].cost_price
                           * (100 - stop_loss_ratio))
       /\ (/\ lastCall.symbol \in DOMAIN positions
           /\ positions[lastCall.symbol].cost_price = 1000
           /\ stop_loss_ratio = 10)
          => /\ lastCall.current_price = 899 => lastCall.ret = TRUE
             /\ lastCall.current_price = 901 => lastCall.ret = FALSE
       /\ lastCall.symbol \notin DOMAIN positions => lastCall.ret = FALSE

\* a position bought at 100.0 is checked at 89.9 and the stop triggers
C9_Witness ==
    /\ lastCall.op = "check_stop_loss"
    /\ lastCall.symbol \in DOMAIN positions
    /\ positions[lastCall.symbol].cost_price = 1000
    /\ lastCall.current_price = 899
    /\ lastCall.ret = TRUE

\* the frame has the long_ma + 5 rows generate_signal asks for
EnoughBars(df) == df.kind = "frame" /\ Len(df.close) >= long_ma + 5

\* short MA above long MA on the last bar, not above on the bar before
GoldenCross(df) ==
    /\ EnoughBars(df)
    /\ ma_short_above(df.close, Len(df.close))
    /\ ~ma_short_above(df.close, Len(df.close) - 1)

\* short MA not above long MA on the last bar, above on the bar before
DeathCross(df) ==
    /\ EnoughBars(df)
    /\ ~ma_short_above(df.close, Len(df.close))
    /\ ma_short_above(df.close, Len(df.close) - 1)

\* C10: the cross detection is the machine {NONE, LONG}: a golden cross in
\* NONE moves to LONG and emits BUY; a death cross in LONG moves to NONE and
\* emits SELL; every other call emits HOLD and leaves the state unchanged.
C10_CrossStateMachine ==
    [][lastCall'.op = "generate_signal"
       => IF GoldenCross(lastCall'.df) /\ position = "None"
          THEN position' = "long" /\ lastCall'.ret.signal = "buy"
          ELSE IF DeathCross(lastCall'.df) /\ position = "long"
          THEN position' = "None" /\ lastCall'.ret.signal = "sell"
          ELSE position' = position /\ lastCall'.ret.signal = "hold"]_vars

\* a death cross has just closed a long opened by an earlier golden cross
C10_Witness ==
    /\ lastCall.op = "generate_signal"
    /\ DeathCross(lastCall.df)
    /\ lastCall.ret.signal = "sell"
    /\ position = "None"

\* C11: the cross state is kept per symbol: what a call emits for a symbol
\* depends on that symbol's own state alone, whatever was signalled for other
\* symbols on the same strategy object.  A symbol is in LONG when its latest
\* BUY/SELL signal was a BUY; a golden cross on a symbol that is not in LONG
\* emits BUY and a death cross on a symbol in LONG emits SELL.
C11_CrossStatePerSymbol ==
    [][lastCall'.op = "generate_signal"
       => /\ GoldenCross(lastCall'.df) /\ lastCall'.symbol \notin signalled_long
             => lastCall'.ret.signal = "buy"
          /\ DeathCross(lastCall'.df) /\ lastCall'.symbol \in signalled_long
             => lastCall'.ret.signal = "sell"]_vars

\* the trend filter applies (TrendWindow bars or more) and the last close is
\* not above the TrendWindow-bar average
TrendViolated(df) ==
    /\ df.kind = "frame"
    /\ Len(df.close) >= TrendWindow
    /\ df.close[Len(df.close)] * TrendWindow
       <= SumRange(df.close, Len(df.close) - TrendWindow + 1, Len(df.close))

\* the volatility filter applies (VolWindow bars or more) and the standard
\* deviation of the daily returns is not below VolLimit percent
VolatilityViolated(df) ==
    /\ df.kind = "frame"
    /\ Len(df.close) >= VolWindow
    /\ ~std_percent_below(df.close, VolLimit)

\* C12: when the trend filter or the volatility filter of
\* DualMAStrategy.generate_signal is violated, the call returns HOLD with a
\* reason and leaves the position state unchanged, also when the last bar is
\* a golden or a death cross.
C12_FilterHolds ==
    [][/\ lastCall'.op = "DualMAStrategy.generate_signal"
       /\ ~(/\ lastCall'.ret.signal = "hold"
            /\ lastCall'.ret.reason \in {"trend filter", "volatility filter"}
            /\ position' = position)
       => /\ ~TrendViolated(lastCall'.df)
          /\ ~VolatilityViolated(lastCall'.df)]_vars

\* a death cross arrived while long and the trend filter vetoed the SELL
C12_Witness ==
    /\ lastCall.op = "DualMAStrategy.generate_signal"
    /\ TrendViolated(lastCall.df)
    /\ DeathCross(lastCall.df)
    /\ lastCall.df2 = lastCall.df
    /\ lastCall.ret.signal = "hold"
    /\ position = "long"

\* a golden cross arrived on a volatile history and stayed unsignalled
C12_WitnessVolatile ==
    /\ lastCall.op = "DualMAStrategy.generate_signal"
    /\ VolatilityViolated(lastCall.df)
    /\ GoldenCross(lastCall.df)
    /\ lastCall.ret.signal = "hold"
    /\ position = "None"

\* C13: every portfolio mutation is atomic, so whatever two callers do
\* concurrently equals some serial order: no remove_position fails on a
\* position another remove_position has just closed, one held position is
\* recorded as one trade, and positions opened after can_open_position never
\* number more than max_position_count.
C13_MutationsAtomic ==
    /\ \A c \in Callers : inflight[c].pc # "raised"
    /\ \A c1, c2 \in Callers :
           /\ c1 # c2
           /\ inflight[c1].pc = "remove_recorded"
           /\ inflight[c2].pc = "remove_recorded"
           => inflight[c1].symbol # inflight[c2].symbol
    /\ Cardinality(DOMAIN positions) <= max_position_count

RECURSIVE RealizedIn(_)
\* sum of shares * (sell_price - buy_price) over a sequence of trade records
RealizedIn(closed) ==
    IF closed = <<>> THEN 0
    ELSE LET t == closed[Len(closed)]
         IN  t.shares * (t.sell_price - t.buy_price)
             + RealizedIn(SubSeq(closed, 1, Len(closed) - 1))

\* the cash the portfolio is left with: the initial capital, less what the
\* held positions cost, plus what the closed positions made or lost
LedgerCash == initial_capital - invested + RealizedIn(trade_history)

\* C14: after any sequence of accepted adds and removes the cash is not
\* negative: no accepted buy spends more than the cash available.
C14_CashNonNegative == LedgerCash >= 0

\* C15: trade_history is append-only: every operation leaves it as it was or
\* extends it by exactly one record at the end; no record already in it is
\* changed, moved or removed.
C15_TradeHistoryAppendOnly ==
    [][\/ trade_history' = trade_history
       \/ /\ Len(trade_history') = Len(trade_history) + 1
          /\ SubSeq(trade_history', 1, Len(trade_history)) = trade_history]_vars

\* a second, different trade has been appended behind the first
C15_Witness ==
    /\ lastCall.op = "remove_position"
    /\ Len(trade_history) >= 2
    /\ trade_history[1] # trade_history[2]
    /\ lastCall.symbol \notin DOMAIN positions
    /\ lastCall.symbol \in DOMAIN pre_positions

\* the ladder the score paths are described by: hold_floor and sell_floor
\* are the lowest scores that still give HOLD and SELL
Ladder(score, hold_floor, sell_floor) ==
    IF score >= 80 THEN "strong_buy"
    ELSE IF score >= 65 THEN "buy"
    ELSE IF score >= hold_floor THEN "hold"
    ELSE IF score >= sell_floor THEN "sell"
    ELSE "strong_sell"

\* C16 as stated: both paths map a score by >= 80 STRONG_BUY, >= 65 BUY,
\* >= HOLD floor HOLD (45 on the technical path, 50 on the picker path),
\* >= 30 SELL, else STRONG_SELL; every score in [30, HOLD floor) gives SELL
\* on both paths.
C16_SellFrom30OnBothPaths ==
    /\ lastCall.op = "TechnicalAnalyzer.generate_signal" /\ lastCall.has_data
       => lastCall.ret.signal = Ladder(lastCall.score, 45, 30)
    /\ lastCall.op = "AIStockPicker.generate_trading_signal"
       /\ lastCall.has_data
       => lastCall.ret.signal = Ladder(lastCall.score, 50, 30)

\* C16, amended: both paths map a score by >= 80 STRONG_BUY, >= 65 BUY,
\* >= HOLD floor HOLD, >= SELL floor SELL, else STRONG_SELL, where the
\* floors are 45 and 30 on the technical path and 50 and 35 on the picker
\* path; every score in [SELL floor, HOLD floor) gives SELL on its path.
C16_ThresholdsPerPath ==
    /\ lastCall.op = "TechnicalAnalyzer.generate_signal" /\ lastCall.has_data
       => /\ lastCall.ret.signal = Ladder(lastCall.score, 45, 30)
          /\ lastCall.score \in 30..44 => lastCall.ret.signal = "sell"
    /\ lastCall.op = "AIStockPicker.generate_trading_signal"
       /\ lastCall.has_data
       => /\ lastCall.ret.signal = Ladder(lastCall.score, 50, 35)
          /\ lastCall.score \in 35..49 => lastCall.ret.signal = "sell"

\* the picker path was given a score between the two SELL floors
C16_Witness ==
    /\ lastCall.op = "AIStockPicker.generate_trading_signal"
    /\ lastCall.has_data
    /\ lastCall.score \in 30..34
    /\ lastCall.ret.signal = "strong_sell"

\* the frame is missing, empty or shorter than MinBars rows
ShortSeries(df) == df.kind = "None" \/ df.rows < MinBars

\* C17: for every price series that is missing, empty or shorter than 60
\* bars, calculate_indicators returns the sentinel (every indicator field
\* unset, trend UNKNOWN) without raising, and generate_signal on such a
\* series returns HOLD with the insufficient-data reason.
C17_ShortSeriesSentinel ==
    /\ lastCall.op \in {"calculate_indicators",
                        "TechnicalAnalyzer.generate_signal"}
    /\ ShortSeries(lastCall.df)
    => /\ lastCall.exc = "none"
       /\ \A f \in {"ma5", "ma10", "ma20", "ma60", "ma120", "others"} :
              ~lastCall.indicators[f].set
       /\ lastCall.indicators.trend = "unknown"
       /\ lastCall.op = "TechnicalAnalyzer.generate_signal"
          => /\ lastCall.ret.signal = "hold"
             /\ lastCall.ret.reason = "insufficient data"

\* generate_signal was handed one bar fewer than calculate_indicators asks
C17_Witness ==
    /\ lastCall.op = "TechnicalAnalyzer.generate_signal"
    /\ lastCall.df.kind = "frame"
    /\ lastCall.df.rows = MinBars - 1
    /\ lastCall.ret.signal = "hold"
    /\ lastCall.indicators = Sentinel

\* where x stands in the sequence seq
IndexIn(seq, x) == CHOOSE i \in 1..Len(seq) : seq[i] = x

\* C18: pick_by_ai_score returns the candidates it could score, each once
\* and with its score, ordered by score descending with ties in input order;
\* a symbol whose history is missing or short, or whose analysis raises, is
\* left out (not scored 0) and does not stop the symbols after it.
C18_RankedAndSkipped ==
    lastCall.op = "pick_by_ai_score"
    => LET symbols == lastCall.symbols
           outcome == lastCall.outcome
           ret == lastCall.ret
           kept == {s \in DOMAIN outcome : outcome[s][1] = "scored"}
       IN  /\ lastCall.exc = "none"
           /\ {ret[i].symbol : i \in 1..Len(ret)} = kept
           /\ Len(ret) = Cardinality(kept)
           /\ \A i \in 1..Len(ret) :
                  ret[i].score = outcome[ret[i].symbol][2]
           /\ \A i, j \in 1..Len(ret) :
                  i < j
                  => \/ ret[i].score > ret[j].score
                     \/ /\ ret[i].score = ret[j].score
                        /\ IndexIn(symbols, ret[i].symbol)
                           < IndexIn(symbols, ret[j].symbol)

\* three symbols went in: the first one's analysis raised, the other two
\* tied and came out in input order
C18_Witness ==
    /\ lastCall.op = "pick_by_ai_score"
    /\ Len(lastCall.symbols) = 3
    /\ lastCall.outcome[lastCall.symbols[1]][1] = "raises"
    /\ Len(lastCall.ret) = 2
    /\ lastCall.ret[1].score = lastCall.ret[2].score
    /\ lastCall.ret[1].symbol = lastCall.symbols[2]
    /\ lastCall.ret[2].symbol = lastCall.symbols[3]

\* n / d rounded toward zero, for d > 0
TowardZero(n, d) == IF n >= 0 THEN n \div d ELSE -((-n) \div d)

\* the lots the risk budget buys and the lots the weight cap allows, each
\* rounded by `round`:
\*   riskAmount / riskPerShare = (capital * riskPerTrade) / (price * stopLoss)
\*   capital * maxPositionWeight / price
SizeBy(round(_, _), price, capital, risk_per_trade) ==
    Min(round(capital * risk_per_trade, price * stop_loss_ratio * LotSize)
            * LotSize,
        round(capital * max_position_weight, 100 * price * LotSize) * LotSize)

FloorOf(n, d) == n \div d

\* the worked example: capital 10000, price 50, stop loss 0.1, risk per
\* trade 0.02 give riskAmount 200, riskPerShare 5, 40 raw shares, 0 lots
WorkedExample ==
    /\ lastCall.available_capital = 100000
    /\ lastCall.price = 500
    /\ lastCall.risk_per_trade = 2
    /\ stop_loss_ratio = 10
    => /\ lastCall.available_capital * lastCall.risk_per_trade = 200 * 1000
       /\ lastCall.price * stop_loss_ratio = 5 * 1000
       /\ FloorOf(lastCall.available_capital * lastCall.risk_per_trade,
                  lastCall.price * stop_loss_ratio) = 40
       /\ lastCall.ret = 0

\* C19 as stated: calculate_position_size returns
\* min(floor(riskAmount / riskPerShare / 100) * 100,
\*     floor(capital * maxPositionWeight / price / 100) * 100),
\* and 0 without error when riskPerShare <= 0 or price <= 0.
C19_SizeByFloor ==
    lastCall.op = "calculate_position_size"
    => /\ lastCall.exc = "none"
       /\ lastCall.ret =
              IF lastCall.price * stop_loss_ratio <= 0 \/ lastCall.price <= 0
              THEN 0
              ELSE SizeBy(FloorOf, lastCall.price, lastCall.available_capital,
                          lastCall.risk_per_trade)
       /\ WorkedExample

\* C19, amended: the two quotients are rounded toward zero (Python int()),
\* which is the floor whenever the capital is not negative; the rest as
\* stated.
C19_SizeByTruncation ==
    lastCall.op = "calculate_position_size"
    => /\ lastCall.exc = "none"
       /\ lastCall.ret =
              IF lastCall.price * stop_loss_ratio <= 0 \/ lastCall.price <= 0
              THEN 0
              ELSE SizeBy(TowardZero, lastCall.price,
                          lastCall.available_capital, lastCall.risk_per_trade)
       /\ lastCall.available_capital >= 0
          /\ lastCall.price * stop_loss_ratio > 0 /\ lastCall.price > 0
          => lastCall.ret = SizeBy(FloorOf, lastCall.price,
                                   lastCall.available_capital,
                                   lastCall.risk_per_trade)
       /\ WorkedExample

\* a negative capital whose quotients are fractions: the code answers 0
\* where the floor gives minus one lot
C19_Witness ==
    /\ lastCall.op = "calculate_position_size"
    /\ lastCall.available_capital < 0
    /\ lastCall.price = 500
    /\ lastCall.ret = 0
    /\ SizeBy(FloorOf, lastCall.price, lastCall.available_capital,
              lastCall.risk_per_trade) = -LotSize

\* the worked example has been computed, and a risk-bound size as well
C19_WitnessExample ==
    /\ lastCall.op = "calculate_position_size"
    /\ lastCall.available_capital = 100000
    /\ lastCall.price = 500
    /\ lastCall.risk_per_trade = 2
    /\ stop_loss_ratio = 10
    /\ lastCall.ret = 0

\* the grade the ladder gives a drawdown (a quotient, in percent) and a
\* concentration (percent)
GradeOf(drawdown, concentration) ==
    IF drawdown[1] > 20 * drawdown[2] THEN "extreme"
    ELSE IF drawdown[1] > 10 * drawdown[2] \/ concentration > 40 THEN "high"
    ELSE IF drawdown[1] > 5 * drawdown[2] \/ concentration > 30 THEN "medium"
    ELSE "low"

GradeRank(level) ==
    CASE level = "low" -> 0
      [] level = "medium" -> 1
      [] level = "high" -> 2
      [] level = "extreme" -> 3

\* the largest target weight among the held positions, 0 when nothing is held
LargestTargetWeight ==
    IF DOMAIN positions = {} THEN 0
    ELSE MaxOf({positions[s].target_weight : s \in DOMAIN positions})

\* _assess_risk_level never grades lower when the drawdown or the
\* concentration is larger
GradeMonotone ==
    \A d1, d2 \in {0, 5, 6, 10, 11, 20, 21}, c1, c2 \in {0, 30, 31, 40, 41} :
        d1 <= d2 /\ c1 <= c2
        => GradeRank(_assess_risk_level(<<d1, 1>>, c1))
           <= GradeRank(_assess_risk_level(<<d2, 1>>, c2))

\* C20: the risk level calculate_risk_metrics reports is EXTREME if the max
\* drawdown is above 20, else HIGH if it is above 10 or the concentration is
\* above 0.4, else MEDIUM if it is above 5 or the concentration is above 0.3,
\* else LOW, where the concentration is the largest target weight among the
\* held positions (0 when nothing is held); the level never decreases when
\* the drawdown or the concentration increases.
C20_RiskLadder ==
    lastCall.op = "calculate_risk_metrics"
    => /\ lastCall.ret.risk_level
              = GradeOf(lastCall.ret.max_drawdown, LargestTargetWeight)
       /\ GradeMonotone

(***************************************************************************)
(* C21: the max drawdown calculate_risk_metrics reports equals             *)
(* (peak - latest) / peak * 100 over the values recorded so far in the     *)
(* equity curve, peak being the largest recorded value and latest the last *)
(* one.  calculate_risk_metrics leaves the curve alone, so the curve of    *)
(* the state is the curve the call read.                                   *)
(***************************************************************************)
PeakEquity == MaxOf({equity_curve[i] : i \in 1..Len(equity_curve)})

LatestEquity == equity_curve[Len(equity_curve)]

C21_DrawdownFromPeak ==
    (/\ lastCall.op = "calculate_risk_metrics"
     /\ lastCall.exc = "none"
     /\ Len(equity_curve) >= 1
     /\ PeakEquity > 0)
        => RatEq(lastCall.ret.max_drawdown,
                 <<(PeakEquity - LatestEquity) * 100, PeakEquity>>)

\* a report over a curve whose peak is not its last value, with a position
\* opened and a trade closed before it: the drawdown is positive
C21_Witness ==
    /\ lastCall.op = "calculate_risk_metrics"
    /\ Len(equity_curve) >= 2
    /\ 0 < LatestEquity
    /\ LatestEquity < PeakEquity
    /\ RatLess(<<0, 1>>, lastCall.ret.max_drawdown)
    /\ trade_history # <<>>
    /\ positions # <<>>

(***************************************************************************)
(* C22: the composite technical score is the integer                       *)
(* clamp(50 + trendTerm + macdTerm + rsiTerm, 0, 100), with trendTerm +20  *)
(* for UPTREND, -20 for DOWNTREND, 0 otherwise; macdTerm +10 / -10 / 0 for *)
(* a histogram above / below / at zero or unset; rsiTerm +5 for RSI12 in   *)
(* [40, 60], -5 above 70, +5 below 30, 0 otherwise; so it lies in 0..100   *)
(* for every combination of inputs.                                        *)
(***************************************************************************)
TrendTerm(trend) ==
    CASE trend = "uptrend" -> 20
      [] trend = "downtrend" -> -20
      [] OTHER -> 0

MacdTerm(histogram) ==
    CASE histogram.set /\ histogram.v > 0 -> 10
      [] histogram.set /\ histogram.v < 0 -> -10
      [] OTHER -> 0

RsiTerm(rsi12) ==
    CASE rsi12.set /\ rsi12.v >= 400 /\ rsi12.v <= 600 -> 5
      [] rsi12.set /\ rsi12.v > 700 -> -5
      [] rsi12.set /\ rsi12.v < 300 -> 5
      [] OTHER -> 0

Clamp(x, lo, hi) == IF x < lo THEN lo ELSE IF x > hi THEN hi ELSE x

C22_CompositeScore ==
    lastCall.op = "_calc_comprehensive_score"
        => /\ lastCall.exc = "none"
           /\ lastCall.ret \in 0..100
           /\ lastCall.ret =
                  Clamp(50 + TrendTerm(lastCall.trend)
                           + MacdTerm(lastCall.histogram)
                           + RsiTerm(lastCall.rsi12), 0, 100)

\* a downtrend with a positive histogram and an overbought RSI: all three
\* terms act, with different signs
C22_Witness ==
    /\ lastCall.op = "_calc_comprehensive_score"
    /\ lastCall.trend = "downtrend"
    /\ lastCall.histogram = Some(1)
    /\ lastCall.rsi12 = Some(701)
    /\ lastCall.ret = 35

(***************************************************************************)
(* C23: RSI(n) over a window whose average loss is zero returns exactly 50 *)
(* (neutral), whether the average gain over the window is zero or          *)
(* positive, and never NaN, infinity or a divide-by-zero fault.            *)
(***************************************************************************)
\* the call had a full window of deltas
FullWindow == Len(lastCall.series) >= lastCall.period + 1

\* sum of the falls / of the rises over the last `period` deltas
WindowLoss ==
    SumOver([i \in 2..Len(lastCall.series) |->
                IF lastCall.series[i] < lastCall.series[i - 1]
                THEN lastCall.series[i - 1] - lastCall.series[i] ELSE 0],
            (Len(lastCall.series) - lastCall.period + 1)
                ..Len(lastCall.series))

WindowGain ==
    SumOver([i \in 2..Len(lastCall.series) |->
                IF lastCall.series[i] > lastCall.series[i - 1]
                THEN lastCall.series[i] - lastCall.series[i - 1] ELSE 0],
            (Len(lastCall.series) - lastCall.period + 1)
                ..Len(lastCall.series))

\* the returned float is the finite value n
Returns(n) ==
    /\ lastCall.ret[1] = "num"
    /\ lastCall.ret[2] = n * lastCall.ret[3]

\* neither a fault nor NaN nor infinity
FiniteResult == lastCall.exc = "none" /\ lastCall.ret[1] = "num"

C23_WitnessFlat ==
    /\ lastCall.op = "_rsi"
    /\ FullWindow
    /\ WindowLoss = 0
    /\ WindowGain = 0
    /\ Returns(50)

(***************************************************************************)
(* C24: each of the four factor scores (momentum, trend, volume,           *)
(* volatility) lies in [0, 100] for every price series, series too short   *)
(* for the factor (which yield the neutral 50) and extreme inputs          *)
(* included, and so does the comprehensive score                           *)
(* 0.3 * momentum + 0.3 * trend + 0.2 * volume + 0.2 * volatility.         *)
(***************************************************************************)
\* r + c * sqrt(q) <= k, decided exactly: with x = k - r, it is x >= 0 for
\* c = 0, x >= 0 and q <= (x / c)^2 for c > 0, x >= 0 or q >= (x / c)^2 for
\* c < 0
AtMost(r, c, q, k) ==
    LET x == RatAdd(<<k, 1>>, RatNeg(r))
        y == RatNorm(<<Abs(x[1]) * c[2], x[2] * Abs(c[1])>>)
    IN  IF c[1] = 0 THEN x[1] >= 0
        ELSE IF c[1] > 0
        THEN x[1] >= 0 /\ CfLeq(q[1], q[2], y[1] * y[1], y[2] * y[2])
        ELSE x[1] >= 0 \/ CfLeq(y[1] * y[1], y[2] * y[2], q[1], q[2])

\* 0 <= score <= 100
InUnit(score) ==
    /\ AtMost(score[1], score[2], score[3], 100)
    /\ AtMost(RatNeg(score[1]), RatNeg(score[2]), score[3], 0)

FactorOps ==
    {"_calc_momentum_score", "_calc_trend_score", "_calc_volume_score",
     "_calc_volatility_score"}

\* rows below which the factor answers the neutral score
RowsNeeded(op) ==
    IF op \in {"_calc_momentum_score", "_calc_volume_score"} THEN 10 ELSE 20

C24_WitnessModerate ==
    /\ lastCall.op = "pick_by_ai_score"
    /\ ~lastCall.ret.skipped
    /\ lastCall.ret.score[2][1] > 0
    /\ lastCall.ret.score[3][1] > 0

\* a series too short for the volatility score
C24_WitnessShort ==
    /\ lastCall.op = "_calc_volatility_score"
    /\ market[1] = "frame"
    /\ market[2] = 19
    /\ lastCall.ret = Neutral

(***************************************************************************)
(* C25: in every reachable portfolio state, every held position's share    *)
(* count is a positive whole multiple of the lot size (100).               *)
(***************************************************************************)
C25_SharesAreLots ==
    \A s \in Held :
        /\ positions[s].shares > 0
        /\ positions[s].shares % LotSize = 0

(***************************************************************************)
(* C26: after any sequence of RiskManager operations every held position   *)
(* has shares > 0 and cost_price > 0 (add_position with shares <= 0 or     *)
(* price <= 0 changes nothing), so remove_position never divides by zero   *)
(* when it computes profit_pct.                                            *)
(***************************************************************************)
C26_HeldSharesAndCostPositive ==
    /\ \A s \in Held : positions[s].shares > 0 /\ positions[s].cost_price > 0
    /\ lastCall.op = "remove_position" => lastCall.exc = "none"
    /\ (/\ lastCall.op = "add_position"
        /\ (lastCall.shares <= 0 \/ lastCall.price <= 0))
           => positions = pre_positions

\* a held position closed at a loss: the division by its cost_price went
\* through
C26_Witness ==
    /\ lastCall.op = "remove_position"
    /\ lastCall.exc = "none"
    /\ lastCall.symbol \in DOMAIN pre_positions
    /\ trade_history # <<>>
    /\ LastTrade.buy_price > 0
    /\ RatLess(LastTrade.profit_pct, <<0, 1>>)

\* an add_position with a zero price on an empty portfolio, turned down
C26_WitnessRejected ==
    /\ lastCall.op = "add_position"
    /\ lastCall.shares > 0
    /\ lastCall.price = 0
    /\ positions = <<>>

(***************************************************************************)
(* C27: over any sequence of generate_signal calls on one                  *)
(* MovingAverageStrategy object the signals other than HOLD alternate BUY, *)
(* SELL, BUY, ... starting with BUY: a BUY follows no earlier signal or a  *)
(* SELL, a SELL follows a BUY; a call that returns on insufficient data or *)
(* on an exception leaves the state unchanged.                             *)
(***************************************************************************)
C27_SignalsAlternate ==
    [][lastCall'.op = "generate_signal"
        => /\ lastCall'.ret.signal = "buy" => last_signal \in {"none", "sell"}
           /\ lastCall'.ret.signal = "sell" => last_signal = "buy"
           /\ lastCall'.ret.reason \in {"insufficient data", "KeyError"}
                  => /\ lastCall'.ret.signal = "hold"
                     /\ position' = position
                     /\ short_ma' = short_ma
                     /\ long_ma' = long_ma]_vars

\* a BUY answered while both symbols' latest signal is a BUY: the object
\* emitted BUY, then SELL, then BUY again
C27_Witness ==
    /\ lastCall.op = "generate_signal"
    /\ lastCall.ret.signal = "buy"
    /\ last_signal = "buy"
    /\ signalled_long = Symbols

\* a SELL, which a BUY preceded
C27_WitnessSell ==
    /\ lastCall.op = "generate_signal"
    /\ lastCall.ret.signal = "sell"
    /\ last_signal = "sell"
    /\ position = "None"

LastRunTrade == trades[Len(trades)]

\* C28: while BacktestEngine.run goes through the rows, the held share
\* count is 0 or a positive multiple of 100, it is positive exactly when
\* the last recorded trade is a BUY, and the trade log alternates BUY, SELL,
\* BUY, ... starting with a BUY
C28_RunAlternates ==
    /\ engine_position >= 0
    /\ engine_position % LotSize = 0
    /\ engine_position > 0 <=> (trades # <<>> /\ LastRunTrade.action = "BUY")
    /\ \A i \in 1..Len(trades) :
           trades[i].action = IF i % 2 = 1 THEN "BUY" ELSE "SELL"

\* a BUY signal while holding recorded nothing, after a full round trip
C28_Witness ==
    /\ lastCall.op = "run" /\ lastCall.signal = "buy"
    /\ ~lastCall.traded
    /\ Len(trades) = 3 /\ engine_position > 0

\* a SELL signal while flat recorded nothing
C28_WitnessFlat ==
    /\ lastCall.op = "run" /\ lastCall.signal = "sell"
    /\ ~lastCall.traded
    /\ Len(trades) = 2 /\ engine_position = 0

BookUnchanged == UNCHANGED <<portfolio_positions, portfolio_trade_history>>

\* C29: StrategyPortfolio.add_position opens a position and appends a 'buy'
\* trade only when the generated signal string starts with 'buy' (which
\* 'strong_buy' does not); for 'hold', 'sell', 'strong_sell' and
\* 'strong_buy', and for a symbol already held, positions and trade_history
\* stay as they were
C29_OpensOnlyOnBuy ==
    [][lastCall'.op = "portfolio_add_position" =>
          /\ ~BookUnchanged =>
                 /\ ~lastCall'.held
                 /\ lastCall'.ret.signal = "buy"
                 /\ DOMAIN portfolio_positions' =
                        DOMAIN portfolio_positions \cup {lastCall'.symbol}
                 /\ Len(portfolio_trade_history') =
                        Len(portfolio_trade_history) + 1
                 /\ portfolio_trade_history'[Len(portfolio_trade_history')]
                        .action = "buy"
          /\ lastCall'.held => BookUnchanged
          /\ (~lastCall'.held /\ lastCall'.ret.signal # "buy")
                 => BookUnchanged]_vars

\* a 'strong_buy' at an affordable price opened nothing
C29_Witness ==
    /\ lastCall.op = "portfolio_add_position"
    /\ ~lastCall.held
    /\ lastCall.ret.signal = "strong_buy"
    /\ lastCall.ret.price = 100 /\ lastCall.weight = 20
    /\ lastCall.symbol \notin DOMAIN portfolio_positions

\* a 'buy' opened a position and recorded the trade
C29_WitnessBuy ==
    /\ lastCall.op = "portfolio_add_position"
    /\ ~lastCall.held
    /\ lastCall.ret.signal = "buy"
    /\ lastCall.symbol \in DOMAIN portfolio_positions
    /\ portfolio_trade_history # <<>>
    /\ portfolio_trade_history[Len(portfolio_trade_history)].action = "buy"

\* a 'buy' for a symbol already held changed nothing
C29_WitnessHeld ==
    /\ lastCall.op = "portfolio_add_position"
    /\ lastCall.held
    /\ Len(portfolio_trade_history) = 1

\* C30: when a single caller issues add_position(symbol, ...) only right
\* after can_open_position(symbol, w) returned (True, ...), the number of
\* held positions never exceeds max_position_count and add_position never
\* overwrites a symbol that is already held
C30_GuardedAddsStayWithinCount ==
    /\ [](Cardinality(DOMAIN positions) <= max_position_count)
    /\ [][lastCall'.op = "add_position"
              => lastCall'.symbol \notin DOMAIN positions]_vars

\* a granted add_position filled the portfolio up to max_position_count
C30_Witness ==
    /\ lastCall.op = "add_position"
    /\ lastCall.symbol \in DOMAIN positions
    /\ lastCall.symbol \notin DOMAIN pre_positions
    /\ Cardinality(DOMAIN positions) = max_position_count

\* with the portfolio full, can_open_position refuses the other symbol
C30_WitnessRefused ==
    /\ lastCall.op = "can_open_position"
    /\ lastCall.exc = "none"
    /\ ~lastCall.ret[1]
    /\ lastCall.symbol \notin DOMAIN positions
    /\ Cardinality(DOMAIN positions) = max_position_count
    /\ max_position_count > 0

====
